---- MODULE Spec2Model ----
(***************************************************************************)
(* Execution gateway of go_playGround_plus: the per-client token-bucket    *)
(* rate limiter (pkg/limiter), the HTTP handler (pkg/handlers), the Go     *)
(* executor and the caching executor that wraps it (pkg/executor), the     *)
(* configuration loader (pkg/config) and the import filter (pkg/security). *)
(*                                                                         *)
(* Token amounts are kept in fixed point: one token is TokenUnit units, so *)
(* that refillRate = maxRequestsPerMin / 60.0 tokens per second is the     *)
(* integer maxRequestsPerMin units per second.  Time is in whole seconds.  *)
(***************************************************************************)
EXTENDS Integers, Sequences, FiniteSets, TLC

\* ------------------------------------------------------------------ bounds
MaxCapacity == 2      \* MaxRequestsPerMinute ranges over 1..MaxCapacity
StepSeconds == 20     \* the clock advances in steps of StepSeconds seconds
MaxTime == 80         \* the clock stops at MaxTime seconds
MaxCalls == 4         \* POST requests observed per client
MaxThreadCalls == 1   \* IsAllowed calls each concurrent handler makes
MaxPrefix == 2        \* calls already served before the concurrent handlers start
MaxOut == 2           \* maxOutputLength ranges over 0..MaxOut
MaxChildOut == 4      \* bytes the child's process group may write
BufSize == 2          \* length of the read buffer (1024 in the code)
PipeCap == 2          \* bytes the kernel pipe buffers
MaxCacheBound == 2    \* maxCacheSize ranges over 0..MaxCacheBound
CacheTTL == 20        \* ce.ttl, seconds
MaxEmit == 1          \* chunks the wrapped executor writes in one run
MaxExecCalls == 2     \* Execute calls the worker goroutines make in all
MaxCacheTicks == 2    \* steps of the clock while the cache is observed
MaxCodeLen == 2       \* h.maxCodeLength, bytes
IntBits == 16         \* width of int and of time.Duration (64 in the code)
TicksPerSecond == 100 \* time.Second in units of time.Duration (10^9 in the code)
MaxSpecs == 2         \* import specs in a block-form import declaration
MinuteTicks == 2      \* time.Minute in the units the cache TTL is counted in
MaxServed == 2        \* requests and cleaner passes observed after the start
MaxTabs == 3          \* tabs the editor holds at most
MaxClock == 1         \* the last value of Date.now() observed
MaxImports == 1       \* file imports waiting for their file at one time

\* one token in fixed-point units: the 60.0 of NewRateLimiter
TokenUnit == 60
\* http.StatusMethodNotAllowed, http.StatusTooManyRequests
StatusMethodNotAllowed == 405
StatusTooManyRequests == 429
\* http.StatusBadRequest, and the status of a response written without WriteHeader
StatusBadRequest == 400
StatusOK == 200
\* the defaults of NewConfig
DefaultMaxRequestsPerMinute == 30
DefaultMaxCodeLength == 10000
DefaultExecutionTimeoutSeconds == 10
\* the defaults of main for the cache
DefaultMaxCacheSize == 100
DefaultCacheTTLMinutes == 30
\* CodeValidator.blacklistedImports
blacklistedImports == <<"os/exec", "syscall", "unsafe", "net", "net/http", "plugin">>

Clients == {"ipA", "ipB"}
Methods == {"GET", "POST"}
NoBucket == [none |-> TRUE]
Threads == {"h1", "h2"}
NoHolder == "unlocked"
Sources == {"s1", "s2"}
Workers == {"w1", "w2"}
NoEntry == [absent |-> TRUE]
NoRun == [never |-> TRUE]
\* hashCode: the hex SHA-256 of the source, a key that differs for sources that differ
hashCode(code) == <<"sha256", code>>

Keys == {hashCode(s) : s \in Sources}
\* attempts of the deferred os.Remove loop
RemoveAttempts == 3
\* len("\n... (output truncated)")
MarkerLen == 23
\* the marker's bytes, written 0; the child's k-th byte is written k
TruncationMarker == [i \in 1..MarkerLen |-> 0]

VARIABLES
    cfgMaxReq,   \* Config.MaxRequestsPerMinute
    now,         \* time.Now(), seconds
    rl,          \* the RateLimiter: capacity, refillRate, buckets
    calls,       \* per client, the IsAllowed calls made: [at, allowed, status]
    lastStatus,  \* status of the latest response of the admission stage (0: passed on)
    \* concurrent handlers inside IsAllowed
    mu,          \* rl.mu: the handler holding it, or NoHolder
    tpc,         \* per handler, its position in IsAllowed
    tip,         \* per handler, the ip argument of its call
    tnow,        \* per handler, the local now
    tcalls,      \* per handler, the calls it has completed
    lin,         \* the calls in the order they acquired rl.mu
    \* one /api/execute request inside GoExecutor.Execute
    maxOutputLength, \* GoExecutor.maxOutputLength
    xpc,         \* position in Execute
    xerr,        \* the error Execute returns ("" for nil)
    ctxDone,     \* the context handed to Execute is done (deadline or cancel)
    clientGone,  \* the client has disconnected: r.Context() is done
    tmpExists,   \* the temporary source file is on disk
    removeTries, \* os.Remove attempts made by the deferred cleanup
    child,       \* the `go run` process started by cmd.Start
    desc,        \* a descendant of the child holding the pipe's write end
    waited,      \* cmd.Wait has returned
    pipeOpen,    \* the read end of the stdout pipe is open
    pipe,        \* bytes written to the pipe and not yet read
    produced,    \* number of bytes the child's process group has written
    totalBytes,  \* totalBytes of the read loop
    written,     \* the bytes handed to output.Write, in order
    \* the CachedExecutor and the goroutines inside its Execute
    maxCacheSize, \* ce.maxCacheSize
    cache,       \* ce.cache: per key, NoEntry or [result, lastAccess, accessCount]
    pendingStats, \* per key, the updateCacheStats goroutines started and not yet run
    wk,          \* per worker: its position in Execute, the source, the Result of
                 \* the entry found, the chunks the wrapped executor wrote, the
                 \* capturing buffer, the bytes written from the cache, whether the
                 \* wrapped executor was invoked, the error returned, calls made
    lastRun,     \* per key, the latest execution whose result was stored
    hitStats,    \* per key, for the entry now under it: the hits served from it
                 \* and the updateCacheStats runs that found it
    \* the handler serving one request
    hreq,        \* the request being served
    hresp,       \* the response: status, body, and what the handler ran
    \* the start of the server
    environ,     \* the environment: per variable, whether it is set and its value
    config,      \* the Config NewConfig returned
    \* the safety filter at work on one source
    source,      \* the import declaration the source holds
    verdict,     \* what ContainsBlacklistedImports returned for it
    \* the mutex of the cache, lock by lock
    lpc,         \* per request: its position in CachedExecutor.Execute
    readers,     \* the requests that hold ce.cacheMutex for reading
    writer,      \* who holds ce.cacheMutex for writing
    statsToRun,  \* updateCacheStats goroutines started that have not locked yet
    \* the start of the process
    server,      \* what main has built: the cache parameters, the cleaner, the
                 \* state of the process and the requests it has served
    \* the web editor
    mode,        \* useEditor: the current mode
    tabs,        \* useEditor: the tabs, each [id, mode], in order
    activeTabId, \* useEditor: the id of the active tab
    selectedExamples, \* useEditor: per mode, the example selected
    clock,       \* Date.now()
    imports      \* handleFileImport calls waiting for file.text(), each with the
                 \* mode it was called in

limVars == <<cfgMaxReq, now, rl, calls, lastStatus>>
concVars == <<mu, tpc, tip, tnow, tcalls, lin>>
exVars == <<maxOutputLength, xpc, xerr, ctxDone, clientGone, tmpExists, removeTries,
            child, desc, waited, pipeOpen, pipe, produced, totalBytes, written>>
cacheVars == <<maxCacheSize, cache, pendingStats, wk, lastRun, hitStats>>
hVars == <<hreq, hresp>>
cfgVars == <<environ, config>>
lockVars == <<lpc, readers, writer, statsToRun>>
startVars == <<server>>
edVars == <<mode, tabs, activeTabId, selectedExamples, clock, imports>>
filterVars == <<source, verdict>>
vars == <<limVars, concVars, exVars, cacheVars, hVars, cfgVars, filterVars, lockVars, startVars,
         edVars>>

\* ------------------------------------------------------------ RateLimiter
NewRateLimiter(maxRequestsPerMin) ==
    [buckets |-> [ip \in Clients |-> NoBucket],
     capacity |-> maxRequestsPerMin * TokenUnit,
     refillRate |-> maxRequestsPerMin]

NewTokenBucket(r, t) ==
    [tokens |-> r.capacity, capacity |-> r.capacity,
     refillRate |-> r.refillRate, lastRefillTime |-> t]

\* lines 64-77: add elapsed * refillRate tokens, clamp to capacity, stamp the time
RefillUnclamped(b, t) ==
    [b EXCEPT !.tokens = b.tokens + (t - b.lastRefillTime) * b.refillRate,
              !.lastRefillTime = t]

Refill(b, t) ==
    LET elapsed == t - b.lastRefillTime
        newTokens == elapsed * b.refillRate
        sum == b.tokens + newTokens
    IN  [b EXCEPT !.tokens = IF sum > b.capacity THEN b.capacity ELSE sum,
                  !.lastRefillTime = t]

\* lines 79-86: consume one token when there is one
Consume(b) ==
    IF b.tokens >= TokenUnit
    THEN [allowed |-> TRUE, bucket |-> [b EXCEPT !.tokens = b.tokens - TokenUnit]]
    ELSE [allowed |-> FALSE, bucket |-> b]

\* a variant that stamps every existing bucket with the time of the call
IsAllowedStampsAll(r, ip, t) ==
    LET hit == IF r.buckets[ip] = NoBucket
               THEN [allowed |-> TRUE, bucket |-> NewTokenBucket(r, t)]
               ELSE Consume(Refill(r.buckets[ip], t))
    IN  [allowed |-> hit.allowed,
         rl |-> [r EXCEPT !.buckets =
                    [c \in Clients |->
                        IF c = ip THEN hit.bucket
                        ELSE IF r.buckets[c] = NoBucket THEN NoBucket
                        ELSE [r.buckets[c] EXCEPT !.lastRefillTime = t]]]]

\* a variant that skips the clamp to capacity
IsAllowedNoClamp(r, ip, t) ==
    IF r.buckets[ip] = NoBucket
    THEN [allowed |-> TRUE,
          rl |-> [r EXCEPT !.buckets[ip] = NewTokenBucket(r, t)]]
    ELSE LET hit == Consume(RefillUnclamped(r.buckets[ip], t))
         IN  [allowed |-> hit.allowed,
              rl |-> [r EXCEPT !.buckets[ip] = hit.bucket]]

\* RateLimiter.IsAllowed, run under rl.mu: the result and the limiter after it
IsAllowed(r, ip, t) ==
    IF r.buckets[ip] = NoBucket
    THEN [allowed |-> TRUE,
          rl |-> [r EXCEPT !.buckets[ip] = NewTokenBucket(r, t)]]
    ELSE LET hit == Consume(Refill(r.buckets[ip], t))
         IN  [allowed |-> hit.allowed,
              rl |-> [r EXCEPT !.buckets[ip] = hit.bucket]]

\* ------------------------------------------- handler, up to admission
\* HandleExecuteCode lines 68-93: 405 for a non-POST method without consulting
\* the limiter; otherwise one IsAllowed call, 429 on denial.
AdmitRequest(ip, method) ==
    IF method # "POST"
    THEN /\ lastStatus' = StatusMethodNotAllowed
         /\ UNCHANGED <<cfgMaxReq, now, rl, calls, concVars, exVars, cacheVars, hVars, cfgVars, filterVars, lockVars, startVars, edVars>>
    ELSE /\ Len(calls[ip]) < MaxCalls
         /\ LET res == IsAllowed(rl, ip, now)
                st == IF res.allowed THEN 0 ELSE StatusTooManyRequests
            IN  /\ rl' = res.rl
                /\ calls' = [calls EXCEPT ![ip] =
                                Append(@, [at |-> now, allowed |-> res.allowed,
                                           status |-> st])]
                /\ lastStatus' = st
         /\ UNCHANGED <<cfgMaxReq, now, concVars, exVars, cacheVars, hVars, cfgVars, filterVars, lockVars, startVars, edVars>>

\* time passes between requests
Advance ==
    /\ now + StepSeconds <= MaxTime
    /\ now' = now + StepSeconds
    /\ UNCHANGED <<cfgMaxReq, rl, calls, lastStatus, concVars, exVars, cacheVars, hVars, cfgVars, filterVars, lockVars, startVars, edVars>>

LimInit ==
    /\ cfgMaxReq \in 1..MaxCapacity
    /\ now = 0
    /\ rl = NewRateLimiter(cfgMaxReq)
    /\ calls = [ip \in Clients |-> <<>>]
    /\ lastStatus = 0

\* no handler is inside IsAllowed
ConcIdle ==
    /\ mu = NoHolder
    /\ tpc = [t \in Threads |-> "idle"]
    /\ tip = [t \in Threads |-> "ipA"]
    /\ tnow = [t \in Threads |-> 0]
    /\ tcalls = [t \in Threads |-> 0]
    /\ lin = <<>>

\* no request is inside Execute
ExecIdle ==
    /\ maxOutputLength = 0
    /\ xpc = "idle"
    /\ xerr = ""
    /\ ctxDone = FALSE
    /\ clientGone = FALSE
    /\ tmpExists = FALSE
    /\ removeTries = 0
    /\ child = "none"
    /\ desc = "none"
    /\ waited = FALSE
    /\ pipeOpen = FALSE
    /\ pipe = <<>>
    /\ produced = 0
    /\ totalBytes = 0
    /\ written = <<>>

\* a worker outside Execute
\* an entry no lookup has hit and no updateCacheStats has found
NotServed == [hits |-> 0, updates |-> 0]

IdleWorker ==
    [pc |-> "idle", src |-> "s1", entry |-> <<>>, emitted |-> <<>>, buffer |-> <<>>,
     wrote |-> <<>>, invoked |-> FALSE, err |-> "", calls |-> 0]

\* an empty cache and no worker inside Execute
CacheIdle ==
    /\ maxCacheSize = 0
    /\ cache = [k \in Keys |-> NoEntry]
    /\ pendingStats = [k \in Keys |-> 0]
    /\ wk = [w \in Workers |-> IdleWorker]
    /\ lastRun = [k \in Keys |-> NoRun]
    /\ hitStats = [k \in Keys |-> NotServed]

\* no request is being served
ConfigIdle == environ = [none |-> TRUE] /\ config = [none |-> TRUE]

FilterIdle == source = [none |-> TRUE] /\ verdict = [none |-> TRUE]

\* no request is inside the cache, lock by lock
LockIdle ==
    /\ lpc = [none |-> TRUE]
    /\ readers = {}
    /\ writer = NoHolder
    /\ statsToRun = 0

\* the process is not observed
StartIdle == server = [none |-> TRUE]

\* the editor is not observed
EditorIdle ==
    /\ mode = "go"
    /\ tabs = <<>>
    /\ activeTabId = "none"
    /\ selectedExamples = [none |-> TRUE]
    /\ clock = 0
    /\ imports = <<>>

HandlerIdle ==
    /\ hreq = [none |-> TRUE]
    /\ hresp = [none |-> TRUE]

Init ==
    /\ LimInit
    /\ ConcIdle
    /\ ExecIdle
    /\ CacheIdle
    /\ HandlerIdle
    /\ ConfigIdle
    /\ FilterIdle
    /\ LockIdle
    /\ StartIdle
    /\ EditorIdle

Next ==
    \/ \E ip \in Clients, method \in Methods : AdmitRequest(ip, method)
    \/ Advance

Spec == Init /\ [][Next]_vars

\* ------------------------------- IsAllowed, statement by statement
\* Handlers run IsAllowed concurrently; each statement of the method is one
\* step, and the bucket is shared through the pointer kept in rl.buckets.
Pending(t) == CHOOSE i \in 1..Len(lin) : lin[i].t = t /\ ~lin[i].done

\* the handler calls h.limiter.IsAllowed(clientIP)
CallIsAllowed(t, ip) ==
    /\ tpc[t] = "idle"
    /\ tcalls[t] < MaxThreadCalls
    /\ tpc' = [tpc EXCEPT ![t] = "lock"]
    /\ tip' = [tip EXCEPT ![t] = ip]
    /\ UNCHANGED <<limVars, exVars, cacheVars, hVars, cfgVars, filterVars, lockVars, startVars, edVars, mu, tnow, tcalls, lin>>

\* a variant of rl.mu.Lock() that does not wait for the holder
LockNoExclusion(t) ==
    /\ tpc[t] = "lock"
    /\ mu' = t
    /\ tpc' = [tpc EXCEPT ![t] = "now"]
    /\ lin' = Append(lin, [t |-> t, ip |-> tip[t], at |-> 0, allowed |-> FALSE,
                           done |-> FALSE,
                           contended |-> \E u \in Threads \ {t} :
                                            tpc[u] = "lock" /\ tip[u] = tip[t]])
    /\ UNCHANGED <<limVars, exVars, cacheVars, hVars, cfgVars, filterVars, lockVars, startVars, edVars, tip, tnow, tcalls>>

\* line 45: rl.mu.Lock()
Lock(t) ==
    /\ tpc[t] = "lock"
    /\ mu = NoHolder
    /\ mu' = t
    /\ tpc' = [tpc EXCEPT ![t] = "now"]
    /\ lin' = Append(lin, [t |-> t, ip |-> tip[t], at |-> 0, allowed |-> FALSE,
                           done |-> FALSE,
                           contended |-> \E u \in Threads \ {t} :
                                            tpc[u] = "lock" /\ tip[u] = tip[t]])
    /\ UNCHANGED <<limVars, exVars, cacheVars, hVars, cfgVars, filterVars, lockVars, startVars, edVars, tip, tnow, tcalls>>

\* line 48: now := time.Now()
ReadNow(t) ==
    /\ tpc[t] = "now"
    /\ tnow' = [tnow EXCEPT ![t] = now]
    /\ lin' = [lin EXCEPT ![Pending(t)].at = now]
    /\ tpc' = [tpc EXCEPT ![t] = "lookup"]
    /\ UNCHANGED <<limVars, exVars, cacheVars, hVars, cfgVars, filterVars, lockVars, startVars, edVars, mu, tip, tcalls>>

\* lines 51-62: look the bucket up; create it full and return true when absent
Lookup(t) ==
    /\ tpc[t] = "lookup"
    /\ IF rl.buckets[tip[t]] = NoBucket
       THEN /\ rl' = [rl EXCEPT !.buckets[tip[t]] = NewTokenBucket(rl, tnow[t])]
            /\ lin' = [lin EXCEPT ![Pending(t)].allowed = TRUE]
            /\ tpc' = [tpc EXCEPT ![t] = "unlock"]
       ELSE /\ tpc' = [tpc EXCEPT ![t] = "refill"]
            /\ UNCHANGED <<rl, lin>>
    /\ UNCHANGED <<cfgMaxReq, now, calls, lastStatus, exVars, cacheVars, hVars, cfgVars, filterVars, lockVars, startVars, edVars, mu, tip, tnow, tcalls>>

\* lines 65-77: refill, clamp, stamp
RefillBucket(t) ==
    /\ tpc[t] = "refill"
    /\ rl' = [rl EXCEPT !.buckets[tip[t]] = Refill(@, tnow[t])]
    /\ tpc' = [tpc EXCEPT ![t] = "check"]
    /\ UNCHANGED <<cfgMaxReq, now, calls, lastStatus, exVars, cacheVars, hVars, cfgVars, filterVars, lockVars, startVars, edVars, mu, tip, tnow, tcalls, lin>>

\* line 80: if bucket.tokens >= 1.0; line 86: return false
CheckTokens(t) ==
    /\ tpc[t] = "check"
    /\ IF rl.buckets[tip[t]].tokens >= TokenUnit
       THEN tpc' = [tpc EXCEPT ![t] = "consume"]
       ELSE tpc' = [tpc EXCEPT ![t] = "unlock"]
    /\ UNCHANGED <<limVars, exVars, cacheVars, hVars, cfgVars, filterVars, lockVars, startVars, edVars, mu, tip, tnow, tcalls, lin>>

\* lines 82-83: bucket.tokens -= 1.0; return true
ConsumeToken(t) ==
    /\ tpc[t] = "consume"
    /\ rl' = [rl EXCEPT !.buckets[tip[t]].tokens = @ - TokenUnit]
    /\ lin' = [lin EXCEPT ![Pending(t)].allowed = TRUE]
    /\ tpc' = [tpc EXCEPT ![t] = "unlock"]
    /\ UNCHANGED <<cfgMaxReq, now, calls, lastStatus, exVars, cacheVars, hVars, cfgVars, filterVars, lockVars, startVars, edVars, mu, tip, tnow, tcalls>>

\* line 46: defer rl.mu.Unlock(), and the return to the handler
Unlock(t) ==
    /\ tpc[t] = "unlock"
    /\ mu' = IF mu = t THEN NoHolder ELSE mu
    /\ lin' = [lin EXCEPT ![Pending(t)].done = TRUE]
    /\ tcalls' = [tcalls EXCEPT ![t] = @ + 1]
    /\ tpc' = [tpc EXCEPT ![t] = "idle"]
    /\ UNCHANGED <<limVars, exVars, cacheVars, hVars, cfgVars, filterVars, lockVars, startVars, edVars, tip, tnow>>

ConcNext ==
    \/ \E t \in Threads, ip \in Clients : CallIsAllowed(t, ip)
    \/ \E t \in Threads : Lock(t)
    \/ \E t \in Threads : ReadNow(t)
    \/ \E t \in Threads : Lookup(t)
    \/ \E t \in Threads : RefillBucket(t)
    \/ \E t \in Threads : CheckTokens(t)
    \/ \E t \in Threads : ConsumeToken(t)
    \/ \E t \in Threads : Unlock(t)
    \/ Advance

\* the calls of q made one after the other from limiter r: the results, and
\* the limiter they leave
RECURSIVE Sequential(_, _)
Sequential(r, q) ==
    IF q = <<>> THEN [results |-> <<>>, rl |-> r]
    ELSE LET first == IsAllowed(r, q[1].ip, q[1].at)
             rest == Sequential(first.rl, Tail(q))
         IN  [results |-> <<first.allowed>> \o rest.results, rl |-> rest.rl]

\* the limiter has served up to MaxPrefix calls of one client at time 0, one
\* after the other, when the concurrent handlers arrive
ConcInit ==
    /\ cfgMaxReq \in 1..MaxCapacity
    /\ now = 0
    /\ calls = [ip \in Clients |-> <<>>]
    /\ lastStatus = 0
    /\ mu = NoHolder
    /\ tpc = [t \in Threads |-> "idle"]
    /\ tip = [t \in Threads |-> "ipA"]
    /\ tnow = [t \in Threads |-> 0]
    /\ tcalls = [t \in Threads |-> 0]
    /\ ExecIdle
    /\ CacheIdle
    /\ HandlerIdle
    /\ ConfigIdle
    /\ FilterIdle
    /\ LockIdle
    /\ StartIdle
    /\ EditorIdle
    /\ \E n \in 0..MaxPrefix :
           LET q == [i \in 1..n |-> [ip |-> "ipA", at |-> 0]]
               served == Sequential(NewRateLimiter(cfgMaxReq), q)
           IN  /\ rl = served.rl
               /\ lin = [i \in 1..n |->
                            [t |-> "h1", ip |-> "ipA", at |-> 0,
                             allowed |-> served.results[i], done |-> TRUE,
                             contended |-> FALSE]]

SpecConc == ConcInit /\ [][ConcNext]_vars

\* --------------------------------------------------- GoExecutor.Execute
\* One request has passed the handler's checks; the handler has made the
\* context (context.WithTimeout over context.Background()) and calls Execute.
Min(a, b) == IF a < b THEN a ELSE b

GroupDead == child # "running" /\ desc # "running"

InFlight == xpc \notin {"idle", "returned"}

\* lines 214-217: os.CreateTemp; on failure return before the cleanup is deferred
CreateTemp ==
    /\ xpc = "create"
    /\ \/ /\ tmpExists' = TRUE
          /\ xpc' = "write"
          /\ UNCHANGED xerr
       \/ /\ xerr' = "error creando archivo temporal"
          /\ xpc' = "returned"
          /\ UNCHANGED tmpExists
    /\ UNCHANGED <<limVars, concVars, cacheVars, hVars, cfgVars, filterVars, lockVars, startVars, edVars, maxOutputLength, ctxDone, clientGone, removeTries,
                   child, desc, waited, pipeOpen, pipe, produced, totalBytes, written>>

\* lines 230-233: tmpFile.WriteString(code), tmpFile.Close()
WriteCode ==
    /\ xpc = "write"
    /\ \/ /\ xpc' = "pipe"
          /\ UNCHANGED xerr
       \/ /\ xerr' = "error escribiendo codigo"
          /\ xpc' = "cleanup"
    /\ UNCHANGED <<limVars, concVars, cacheVars, hVars, cfgVars, filterVars, lockVars, startVars, edVars, maxOutputLength, ctxDone, clientGone, tmpExists,
                   removeTries, child, desc, waited, pipeOpen, pipe, produced,
                   totalBytes, written>>

\* lines 236-245: exec.CommandContext, Setpgid, cmd.StdoutPipe, cmd.Stderr = cmd.Stdout
StdoutPipe ==
    /\ xpc = "pipe"
    /\ \/ /\ pipeOpen' = TRUE
          /\ xpc' = "start"
          /\ UNCHANGED xerr
       \/ /\ xerr' = "error obteniendo salida del comando"
          /\ xpc' = "cleanup"
          /\ UNCHANGED pipeOpen
    /\ UNCHANGED <<limVars, concVars, cacheVars, hVars, cfgVars, filterVars, lockVars, startVars, edVars, maxOutputLength, ctxDone, clientGone, tmpExists,
                   removeTries, child, desc, waited, pipe, produced, totalBytes, written>>

\* lines 247-249: cmd.Start; it fails at once on a context that is already done,
\* and a failed start closes the pipe.  The child may run a descendant (go run
\* runs the compiled program) that inherits the write end of the pipe.
StartCmd ==
    /\ xpc = "start"
    /\ \/ /\ ~ctxDone
          /\ child' = "running"
          /\ desc' \in {"none", "running"}
          /\ xpc' = "read"
          /\ UNCHANGED <<xerr, pipeOpen>>
       \/ /\ xerr' = "error iniciando el comando"
          /\ pipeOpen' = FALSE
          /\ xpc' = "cleanup"
          /\ UNCHANGED <<child, desc>>
    /\ UNCHANGED <<limVars, concVars, cacheVars, hVars, cfgVars, filterVars, lockVars, startVars, edVars, maxOutputLength, ctxDone, clientGone, tmpExists,
                   removeTries, waited, pipe, produced, totalBytes, written>>

\* a variant of the read that keeps reading after it has written the marker
ReadChunkNoBreak(n) ==
    /\ xpc = "read"
    /\ n \in 1..Min(BufSize, Len(pipe))
    /\ pipe' = SubSeq(pipe, n + 1, Len(pipe))
    /\ LET buf == SubSeq(pipe, 1, n)
           allowed == maxOutputLength - totalBytes
       IN  IF totalBytes + n > maxOutputLength
           THEN /\ written' = written
                                \o (IF allowed > 0 THEN SubSeq(buf, 1, allowed) ELSE <<>>)
                                \o TruncationMarker
                /\ totalBytes' = IF allowed > 0 THEN totalBytes + allowed ELSE totalBytes
           ELSE /\ written' = written \o buf
                /\ totalBytes' = totalBytes + n
    /\ UNCHANGED <<limVars, concVars, cacheVars, hVars, cfgVars, filterVars, lockVars, startVars, edVars, maxOutputLength, xpc, xerr, ctxDone, clientGone,
                   tmpExists, removeTries, child, desc, waited, pipeOpen, produced>>

\* a variant of the read that forwards the whole chunk, then the marker
ReadChunkWholeChunk(n) ==
    /\ xpc = "read"
    /\ n \in 1..Min(BufSize, Len(pipe))
    /\ pipe' = SubSeq(pipe, n + 1, Len(pipe))
    /\ LET buf == SubSeq(pipe, 1, n)
       IN  IF totalBytes + n > maxOutputLength
           THEN /\ written' = written \o buf \o TruncationMarker
                /\ totalBytes' = totalBytes + n
                /\ xpc' = "wait"
           ELSE /\ written' = written \o buf
                /\ totalBytes' = totalBytes + n
                /\ xpc' = "read"
    /\ UNCHANGED <<limVars, concVars, cacheVars, hVars, cfgVars, filterVars, lockVars, startVars, edVars, maxOutputLength, xerr, ctxDone, clientGone,
                   tmpExists, removeTries, child, desc, waited, pipeOpen, produced>>

\* lines 261-276: stdoutPipe.Read returns n > 0 bytes; forward them, or the
\* allowed prefix and the marker, then leave the loop
ReadChunk(n) ==
    /\ xpc = "read"
    /\ n \in 1..Min(BufSize, Len(pipe))
    /\ pipe' = SubSeq(pipe, n + 1, Len(pipe))
    /\ LET buf == SubSeq(pipe, 1, n)
           allowed == maxOutputLength - totalBytes
       IN  IF totalBytes + n > maxOutputLength
           THEN /\ written' = written
                                \o (IF allowed > 0 THEN SubSeq(buf, 1, allowed) ELSE <<>>)
                                \o TruncationMarker
                /\ totalBytes' = IF allowed > 0 THEN totalBytes + allowed ELSE totalBytes
                /\ xpc' = "wait"
           ELSE /\ written' = written \o buf
                /\ totalBytes' = totalBytes + n
                /\ xpc' = "read"
    /\ UNCHANGED <<limVars, concVars, cacheVars, hVars, cfgVars, filterVars, lockVars, startVars, edVars, maxOutputLength, xerr, ctxDone, clientGone,
                   tmpExists, removeTries, child, desc, waited, pipeOpen, produced>>

\* lines 261, 277-282: Read returns io.EOF: the pipe is drained and no process
\* holds its write end any more
ReadEOF ==
    /\ xpc = "read"
    /\ pipe = <<>>
    /\ GroupDead
    /\ xpc' = "wait"
    /\ UNCHANGED <<limVars, concVars, cacheVars, hVars, cfgVars, filterVars, lockVars, startVars, edVars, maxOutputLength, xerr, ctxDone, clientGone,
                   tmpExists, removeTries, child, desc, waited, pipeOpen, pipe,
                   produced, totalBytes, written>>

\* lines 277-280: Read fails with another error: return it (cmd.Wait is skipped)
ReadError ==
    /\ xpc = "read"
    /\ xerr' = "error leyendo salida"
    /\ xpc' = "cleanup"
    /\ UNCHANGED <<limVars, concVars, cacheVars, hVars, cfgVars, filterVars, lockVars, startVars, edVars, maxOutputLength, ctxDone, clientGone, tmpExists,
                   removeTries, child, desc, waited, pipeOpen, pipe, produced,
                   totalBytes, written>>

\* lines 286-290: cmd.Wait returns once the child has exited; it closes the read
\* end of the pipe and reports a non-zero exit or a kill as an error
WaitCmd ==
    /\ xpc = "wait"
    /\ child \in {"exited0", "exitedErr", "killed"}
    /\ waited' = TRUE
    /\ pipeOpen' = FALSE
    /\ pipe' = <<>>
    /\ xerr' = IF child = "exited0" THEN "" ELSE "error en la ejecucion"
    /\ xpc' = "cleanup"
    /\ UNCHANGED <<limVars, concVars, cacheVars, hVars, cfgVars, filterVars, lockVars, startVars, edVars, maxOutputLength, ctxDone, clientGone, tmpExists,
                   removeTries, child, desc, produced, totalBytes, written>>

\* a variant of the cleanup that gives up after its first os.Remove
RemoveTempOnce ==
    /\ xpc = "cleanup"
    /\ removeTries < RemoveAttempts
    /\ removeTries' = removeTries + 1
    /\ \/ tmpExists' = FALSE
       \/ UNCHANGED tmpExists
    /\ xpc' = "returned"
    /\ UNCHANGED <<limVars, concVars, cacheVars, hVars, cfgVars, filterVars, lockVars, startVars, edVars, maxOutputLength, xerr, ctxDone, clientGone,
                   child, desc, waited, pipeOpen, pipe, produced, totalBytes, written>>

\* lines 219-228: the deferred cleanup: up to RemoveAttempts os.Remove calls,
\* stopping at the first that succeeds or finds the file already gone; a call
\* on a file that is there may fail with another error
RemoveTemp ==
    /\ xpc = "cleanup"
    /\ removeTries < RemoveAttempts
    /\ removeTries' = removeTries + 1
    /\ \/ /\ tmpExists' = FALSE
          /\ xpc' = "returned"
       \/ /\ tmpExists
          /\ UNCHANGED tmpExists
          /\ xpc' = IF removeTries + 1 = RemoveAttempts THEN "returned" ELSE "cleanup"
    /\ UNCHANGED <<limVars, concVars, cacheVars, hVars, cfgVars, filterVars, lockVars, startVars, edVars, maxOutputLength, xerr, ctxDone, clientGone,
                   child, desc, waited, pipeOpen, pipe, produced, totalBytes, written>>

\* the file is removed from TempDir by someone else while Execute runs; the
\* next os.Remove then reports that it does not exist
TempVanishes ==
    /\ InFlight
    /\ tmpExists
    /\ tmpExists' = FALSE
    /\ UNCHANGED <<limVars, concVars, cacheVars, hVars, cfgVars, filterVars, lockVars, startVars, edVars, maxOutputLength, xpc, xerr, ctxDone, clientGone,
                   removeTries, child, desc, waited, pipeOpen, pipe, produced,
                   totalBytes, written>>

\* the child or its descendant writes one more byte to stdout/stderr
Produce ==
    /\ ~GroupDead
    /\ pipeOpen
    /\ produced < MaxChildOut
    /\ Len(pipe) < PipeCap
    /\ produced' = produced + 1
    /\ pipe' = Append(pipe, produced + 1)
    /\ UNCHANGED <<limVars, concVars, cacheVars, hVars, cfgVars, filterVars, lockVars, startVars, edVars, maxOutputLength, xpc, xerr, ctxDone, clientGone,
                   tmpExists, removeTries, child, desc, waited, pipeOpen, totalBytes,
                   written>>

\* the child exits by itself, after its descendant
ChildExit ==
    /\ child = "running"
    /\ desc # "running"
    /\ child' \in {"exited0", "exitedErr"}
    /\ UNCHANGED <<limVars, concVars, cacheVars, hVars, cfgVars, filterVars, lockVars, startVars, edVars, maxOutputLength, xpc, xerr, ctxDone, clientGone,
                   tmpExists, removeTries, desc, waited, pipeOpen, pipe, produced,
                   totalBytes, written>>

\* the descendant exits by itself
DescExit ==
    /\ desc = "running"
    /\ desc' = "exited"
    /\ UNCHANGED <<limVars, concVars, cacheVars, hVars, cfgVars, filterVars, lockVars, startVars, edVars, maxOutputLength, xpc, xerr, ctxDone, clientGone,
                   tmpExists, removeTries, child, waited, pipeOpen, pipe, produced,
                   totalBytes, written>>

\* line 236: exec.CommandContext: once ctx is done the started process, and only
\* it, is killed (os.Process.Kill); nothing signals the process group
KillOnDone ==
    /\ ctxDone
    /\ child = "running"
    /\ ~waited
    /\ child' = "killed"
    /\ UNCHANGED <<limVars, concVars, cacheVars, hVars, cfgVars, filterVars, lockVars, startVars, edVars, maxOutputLength, xpc, xerr, ctxDone, clientGone,
                   tmpExists, removeTries, desc, waited, pipeOpen, pipe, produced,
                   totalBytes, written>>

\* handlers.go line 165: the deadline of context.WithTimeout passes
DeadlineExpires ==
    /\ InFlight
    /\ ~ctxDone
    /\ ctxDone' = TRUE
    /\ UNCHANGED <<limVars, concVars, cacheVars, hVars, cfgVars, filterVars, lockVars, startVars, edVars, maxOutputLength, xpc, xerr, clientGone, tmpExists,
                   removeTries, child, desc, waited, pipeOpen, pipe, produced,
                   totalBytes, written>>

\* the client goes away: r.Context() is done; the context of the execution is
\* derived from context.Background() (handlers.go line 165) and is not affected
ClientDisconnect ==
    /\ InFlight
    /\ ~clientGone
    /\ clientGone' = TRUE
    /\ UNCHANGED <<limVars, concVars, cacheVars, hVars, cfgVars, filterVars, lockVars, startVars, edVars, maxOutputLength, xpc, xerr, ctxDone, tmpExists,
                   removeTries, child, desc, waited, pipeOpen, pipe, produced,
                   totalBytes, written>>

ExecInit ==
    /\ cfgMaxReq = 1
    /\ now = 0
    /\ rl = NewRateLimiter(cfgMaxReq)
    /\ calls = [ip \in Clients |-> <<>>]
    /\ lastStatus = 0
    /\ ConcIdle
    /\ CacheIdle
    /\ HandlerIdle
    /\ ConfigIdle
    /\ FilterIdle
    /\ LockIdle
    /\ StartIdle
    /\ EditorIdle
    /\ maxOutputLength \in 0..MaxOut
    /\ xpc = "create"
    /\ xerr = ""
    /\ ctxDone = FALSE
    /\ clientGone = FALSE
    /\ tmpExists = FALSE
    /\ removeTries = 0
    /\ child = "none"
    /\ desc = "none"
    /\ waited = FALSE
    /\ pipeOpen = FALSE
    /\ pipe = <<>>
    /\ produced = 0
    /\ totalBytes = 0
    /\ written = <<>>

\* the steps Execute itself takes
ExecStep ==
    \/ CreateTemp
    \/ WriteCode
    \/ StdoutPipe
    \/ StartCmd
    \/ \E n \in 1..BufSize : ReadChunk(n)
    \/ ReadEOF
    \/ WaitCmd
    \/ RemoveTemp

ExecNext ==
    \/ ExecStep
    \/ ReadError
    \/ Produce
    \/ ChildExit
    \/ DescExit
    \/ KillOnDone
    \/ DeadlineExpires
    \/ ClientDisconnect
    \/ TempVanishes

SpecExec == ExecInit /\ [][ExecNext]_vars

\* Execute's goroutine keeps running, the context watcher kills the child once
\* the context is done, and the deadline timer fires; the child and its
\* descendant are free to write, exit or run forever.
SpecExecFair ==
    /\ ExecInit
    /\ [][ExecNext]_vars
    /\ WF_vars(ExecStep)
    /\ WF_vars(KillOnDone)
    /\ WF_vars(DeadlineExpires)

\* Execute's goroutine keeps running and the context watcher kills the child
\* once the context is done; nothing is assumed about when the deadline of the
\* context passes, nor about the child
SpecExecSteps ==
    /\ ExecInit
    /\ [][ExecNext]_vars
    /\ WF_vars(ExecStep)
    /\ WF_vars(KillOnDone)

\* ------------------------------------------------ CachedExecutor.Execute
\* Worker goroutines run CachedExecutor.Execute concurrently.  Every section
\* the code runs under ce.cacheMutex is one step; the write of a cached result
\* and the wrapped executor's run happen outside the mutex, write by write.
\* The wrapped executor is seen from outside: the chunks it hands to the
\* writer it was given, and the error it returns.

Present(c) == {k \in Keys : c[k] # NoEntry}

\* a variant of the expiry test under which an entry exactly ttl old has expired
ExpiredAtTTL(e, t) == t - e.lastAccess >= CacheTTL

\* now - lastAccess > ttl
Expired(e, t) == t - e.lastAccess > CacheTTL

\* a variant of the eviction that deletes any one entry
EvictAny(c) ==
    IF Present(c) = {} THEN {c}
    ELSE {[c EXCEPT ![k] = NoEntry] : k \in Present(c)}

\* evictLeastRecentlyUsed: delete one entry whose LastAccess no other entry
\* precedes (the map's iteration order decides among equals); the caches that
\* may result
EvictLeastRecentlyUsed(c) ==
    IF Present(c) = {} THEN {c}
    ELSE {[c EXCEPT ![k] = NoEntry] :
            k \in {v \in Present(c) :
                     \A u \in Present(c) : c[u].lastAccess >= c[v].lastAccess}}

\* a variant of the store that keeps the entry the key already has
StoreOfKeepFirst(c, k, buf, t) ==
    IF c[k] # NoEntry THEN {c}
    ELSE {[c EXCEPT ![k] = [result |-> buf, lastAccess |-> t, accessCount |-> 1]]}

\* lines 145-154 with the entry stored whatever the room check found
StoreOf(c, k, buf, t) ==
    {[c EXCEPT ![k] = [result |-> buf, lastAccess |-> t, accessCount |-> 1]]}

\* a variant of the store that never evicts
StoreNoEvict(c, k, buf, t, max) ==
    StoreOf(c, k, buf, t)

\* lines 145-154: make room when len(cache) >= maxCacheSize, then store
Store(c, k, buf, t, max) ==
    IF Cardinality(Present(c)) >= max
    THEN UNION {StoreOf(d, k, buf, t) : d \in EvictLeastRecentlyUsed(c)}
    ELSE StoreOf(c, k, buf, t)

\* what is remembered of the executions whose result was stored: per key, the
\* latest one, and whether a later store has evicted its entry; the runs once a
\* store has left cache c
Forget(runs, c) ==
    [k \in Keys |->
        IF runs[k] # NoRun /\ c[k] = NoEntry THEN [runs[k] EXCEPT !.evicted = TRUE]
        ELSE runs[k]]

RECURSIVE SumCalls(_)
SumCalls(ws) ==
    IF ws = {} THEN 0
    ELSE LET w == CHOOSE x \in ws : TRUE IN wk[w].calls + SumCalls(ws \ {w})

\* the Execute calls made so far
ExecCalls == SumCalls(Workers)

\* a worker calls ce.Execute(ctx, code, output)
BeginExecute(w, s) ==
    /\ wk[w].pc = "idle"
    /\ ExecCalls < MaxExecCalls
    /\ wk' = [wk EXCEPT ![w] = [IdleWorker EXCEPT !.pc = "lookup", !.src = s,
                                                   !.calls = wk[w].calls + 1]]
    /\ UNCHANGED <<limVars, concVars, exVars, hVars, cfgVars, filterVars, lockVars, startVars, edVars, maxCacheSize, cache,
                   pendingStats, lastRun, hitStats>>

\* a variant of the lookup that serves an entry it finds whatever its age
CacheLookupNoTTL(w) ==
    /\ wk[w].pc = "lookup"
    /\ LET k == hashCode(wk[w].src)
           e == cache[k]
       IN  IF e # NoEntry
           THEN /\ wk' = [wk EXCEPT ![w].pc = "hit", ![w].entry = e.result]
                /\ pendingStats' = [pendingStats EXCEPT ![k] = @ + 1]
                /\ hitStats' = [hitStats EXCEPT ![k].hits = @ + 1]
           ELSE /\ wk' = [wk EXCEPT ![w].pc = "inner", ![w].invoked = TRUE]
                /\ UNCHANGED <<pendingStats, hitStats>>
    /\ UNCHANGED <<limVars, concVars, exVars, hVars, cfgVars, filterVars, lockVars, startVars, edVars, maxCacheSize, cache, lastRun>>

\* a variant of the lookup that runs the wrapped executor on a hit as well
CacheLookupRunsAnyway(w) ==
    /\ wk[w].pc = "lookup"
    /\ LET k == hashCode(wk[w].src)
           e == cache[k]
       IN  IF e # NoEntry /\ ~Expired(e, now)
           THEN /\ wk' = [wk EXCEPT ![w].pc = "hit", ![w].entry = e.result,
                                    ![w].invoked = TRUE]
                /\ pendingStats' = [pendingStats EXCEPT ![k] = @ + 1]
                /\ hitStats' = [hitStats EXCEPT ![k].hits = @ + 1]
           ELSE /\ wk' = [wk EXCEPT ![w].pc = "inner", ![w].invoked = TRUE]
                /\ UNCHANGED <<pendingStats, hitStats>>
    /\ UNCHANGED <<limVars, concVars, exVars, hVars, cfgVars, filterVars, lockVars, startVars, edVars, maxCacheSize, cache, lastRun>>

\* lines 103-123, under RLock: an entry that is present and not expired is a
\* hit, and go ce.updateCacheStats(codeHash) is started; otherwise the wrapped
\* executor is to run (line 135)
CacheLookup(w) ==
    /\ wk[w].pc = "lookup"
    /\ LET k == hashCode(wk[w].src)
           e == cache[k]
       IN  IF e # NoEntry /\ ~Expired(e, now)
           THEN /\ wk' = [wk EXCEPT ![w].pc = "hit", ![w].entry = e.result]
                /\ pendingStats' = [pendingStats EXCEPT ![k] = @ + 1]
                /\ hitStats' = [hitStats EXCEPT ![k].hits = @ + 1]
           ELSE /\ wk' = [wk EXCEPT ![w].pc = "inner", ![w].invoked = TRUE]
                /\ UNCHANGED <<pendingStats, hitStats>>
    /\ UNCHANGED <<limVars, concVars, exVars, hVars, cfgVars, filterVars, lockVars, startVars, edVars, maxCacheSize, cache, lastRun>>

\* lines 117-118: output.Write(entry.Result); return err
WriteCached(w) ==
    /\ wk[w].pc = "hit"
    /\ \E e \in {"", "write failed"} :
           wk' = [wk EXCEPT ![w].pc = "idle", ![w].wrote = wk[w].entry,
                            ![w].entry = <<>>, ![w].err = e]
    /\ UNCHANGED <<limVars, concVars, exVars, hVars, cfgVars, filterVars, lockVars, startVars, edVars, maxCacheSize, cache,
                   pendingStats, lastRun, hitStats>>

\* the wrapped executor hands one chunk to multiWriter (line 132), its k-th
\* chunk being written k: io.MultiWriter
\* writes it to output first and, only when that write was complete and without
\* error, to the capturing buffer; GoExecutor ignores the result of the write
InnerWrite(w, ok) ==
    /\ wk[w].pc = "inner"
    /\ Len(wk[w].emitted) < MaxEmit
    /\ LET c == Len(wk[w].emitted) + 1
       IN  wk' = [wk EXCEPT ![w].emitted = Append(@, c),
                            ![w].buffer = IF ok THEN Append(@, c) ELSE @]
    /\ UNCHANGED <<limVars, concVars, exVars, hVars, cfgVars, filterVars, lockVars, startVars, edVars, maxCacheSize, cache,
                   pendingStats, lastRun, hitStats>>

\* a variant of the return that goes on to store after an error
InnerReturnStoresAnyway(w, e) ==
    /\ wk[w].pc = "inner"
    /\ wk' = [wk EXCEPT ![w].pc = "store", ![w].err = e]
    /\ UNCHANGED <<limVars, concVars, exVars, hVars, cfgVars, filterVars, lockVars, startVars, edVars, maxCacheSize, cache,
                   pendingStats, lastRun, hitStats>>

\* lines 135-138: ce.executor.Execute returns; an error is returned as it is
InnerReturn(w, e) ==
    /\ wk[w].pc = "inner"
    /\ wk' = IF e = ""
             THEN [wk EXCEPT ![w].pc = "store"]
             ELSE [wk EXCEPT ![w].pc = "idle", ![w].err = e,
                             ![w].emitted = <<>>, ![w].buffer = <<>>]
    /\ UNCHANGED <<limVars, concVars, exVars, hVars, cfgVars, filterVars, lockVars, startVars, edVars, maxCacheSize, cache,
                   pendingStats, lastRun, hitStats>>

\* lines 141-157, under Lock: make room, store the captured bytes, return nil
StoreEntry(w) ==
    /\ wk[w].pc = "store"
    /\ LET k == hashCode(wk[w].src)
       IN  /\ cache' \in Store(cache, k, wk[w].buffer, now, maxCacheSize)
           /\ lastRun' = [Forget(lastRun, cache') EXCEPT ![k] =
                             [at |-> now, captured |-> wk[w].buffer, evicted |-> FALSE]]
           /\ hitStats' = [j \in Keys |->
                             IF j = k \/ cache'[j] = NoEntry THEN NotServed ELSE hitStats[j]]
    /\ wk' = [wk EXCEPT ![w].pc = "idle", ![w].emitted = <<>>, ![w].buffer = <<>>]
    /\ UNCHANGED <<limVars, concVars, exVars, hVars, cfgVars, filterVars, lockVars, startVars, edVars, maxCacheSize, pendingStats>>

\* a variant of the update that leaves LastAccess as it was
UpdateCacheStatsKeepsTime(k) ==
    /\ pendingStats[k] > 0
    /\ pendingStats' = [pendingStats EXCEPT ![k] = @ - 1]
    /\ cache' = IF cache[k] # NoEntry
                THEN [cache EXCEPT ![k].accessCount = @ + 1]
                ELSE cache
    /\ hitStats' = IF cache[k] # NoEntry
                   THEN [hitStats EXCEPT ![k].updates = @ + 1]
                   ELSE hitStats
    /\ UNCHANGED <<limVars, concVars, exVars, hVars, cfgVars, filterVars, lockVars, startVars, edVars, maxCacheSize, wk, lastRun>>

\* lines 171-179: a started updateCacheStats goroutine runs, under Lock
UpdateCacheStats(k) ==
    /\ pendingStats[k] > 0
    /\ pendingStats' = [pendingStats EXCEPT ![k] = @ - 1]
    /\ cache' = IF cache[k] # NoEntry
                THEN [cache EXCEPT ![k].lastAccess = now, ![k].accessCount = @ + 1]
                ELSE cache
    /\ hitStats' = IF cache[k] # NoEntry
                 THEN [hitStats EXCEPT ![k].updates = @ + 1]
                 ELSE hitStats
    /\ UNCHANGED <<limVars, concVars, exVars, hVars, cfgVars, filterVars, lockVars, startVars, edVars, maxCacheSize, wk, lastRun>>

\* a variant of the cleaner that removes every entry
CleanupCacheAll ==
    /\ Present(cache) # {}
    /\ cache' = [k \in Keys |-> NoEntry]
    /\ hitStats' = [k \in Keys |-> IF cache'[k] = NoEntry THEN NotServed ELSE hitStats[k]]
    /\ UNCHANGED <<limVars, concVars, exVars, hVars, cfgVars, filterVars, lockVars, startVars, edVars, maxCacheSize, pendingStats, wk,
                   lastRun>>

\* a variant of the cleaner that also removes the entries exactly ttl old
CleanupCacheAtTTL ==
    /\ \E k \in Present(cache) : now - cache[k].lastAccess >= CacheTTL
    /\ cache' = [k \in Keys |->
                    IF cache[k] # NoEntry /\ now - cache[k].lastAccess >= CacheTTL
                    THEN NoEntry ELSE cache[k]]
    /\ hitStats' = [k \in Keys |-> IF cache'[k] = NoEntry THEN NotServed ELSE hitStats[k]]
    /\ UNCHANGED <<limVars, concVars, exVars, hVars, cfgVars, filterVars, lockVars, startVars, edVars, maxCacheSize, pendingStats, wk,
                   lastRun>>

\* lines 222-232: a pass of the cleaner, under Lock, that finds an entry to remove
CleanupCache ==
    /\ \E k \in Present(cache) : Expired(cache[k], now)
    /\ cache' = [k \in Keys |->
                    IF cache[k] # NoEntry /\ Expired(cache[k], now)
                    THEN NoEntry ELSE cache[k]]
    /\ hitStats' = [k \in Keys |-> IF cache'[k] = NoEntry THEN NotServed ELSE hitStats[k]]
    /\ UNCHANGED <<limVars, concVars, exVars, hVars, cfgVars, filterVars, lockVars, startVars, edVars, maxCacheSize, pendingStats, wk,
                   lastRun>>

\* time passes
Tick ==
    /\ now + StepSeconds <= MaxCacheTicks * StepSeconds
    /\ now' = now + StepSeconds
    /\ UNCHANGED <<cfgMaxReq, rl, calls, lastStatus, concVars, exVars, cacheVars, hVars, cfgVars, filterVars, lockVars, startVars, edVars>>

\* part_005 lines 84-91: NewCachedExecutor(baseExecutor, maxCacheSize, cacheTTL);
\* the cache is observed from its construction, or from the moment one call for
\* source s1, whose one chunk of output reached its writer, has returned (with
\* MaxCacheSize at least 1)
CacheInit ==
    /\ cfgMaxReq = 1
    /\ now = 0
    /\ rl = NewRateLimiter(cfgMaxReq)
    /\ calls = [ip \in Clients |-> <<>>]
    /\ lastStatus = 0
    /\ ConcIdle
    /\ ExecIdle
    /\ HandlerIdle
    /\ ConfigIdle
    /\ FilterIdle
    /\ LockIdle
    /\ StartIdle
    /\ EditorIdle
    /\ maxCacheSize \in 0..MaxCacheBound
    /\ pendingStats = [k \in Keys |-> 0]
    /\ wk = [w \in Workers |-> IdleWorker]
    /\ hitStats = [k \in Keys |-> NotServed]
    /\ \/ /\ cache = [k \in Keys |-> NoEntry]
          /\ lastRun = [k \in Keys |-> NoRun]
       \/ /\ maxCacheSize >= 1
          /\ cache \in Store([k \in Keys |-> NoEntry], hashCode("s1"), <<1>>, 0,
                              maxCacheSize)
          /\ lastRun = [k \in Keys |->
                           IF k = hashCode("s1")
                           THEN [at |-> 0, captured |-> <<1>>, evicted |-> FALSE]
                           ELSE NoRun]

CacheNext ==
    \/ \E w \in Workers, s \in Sources : BeginExecute(w, s)
    \/ \E w \in Workers : CacheLookup(w)
    \/ \E w \in Workers : WriteCached(w)
    \/ \E w \in Workers, ok \in BOOLEAN : InnerWrite(w, ok)
    \/ \E w \in Workers, e \in {"", "error en la ejecucion"} : InnerReturn(w, e)
    \/ \E w \in Workers : StoreEntry(w)
    \/ \E k \in Keys : UpdateCacheStats(k)
    \/ CleanupCache
    \/ Tick

SpecCache == CacheInit /\ [][CacheNext]_vars

\* line 114 starts each update as a goroutine of its own: the scheduler runs it,
\* and the mutex it waits for is held for bounded sections only
\* (observed on the cache of the largest size)
CacheFairInit == CacheInit /\ maxCacheSize = MaxCacheBound

SpecCacheFair ==
    CacheFairInit /\ [][CacheNext]_vars /\ \A k \in Keys : WF_vars(UpdateCacheStats(k))

\* ------------------------------------------- APIHandler.HandleExecuteCode
\* One request served from the method check to the response.  A source is
\* seen as its length in bytes and the strings the safety filter extracts from
\* its import declarations, in order; a header value and a body line as the
\* pieces they are made of.

\* does sequence s begin with sequence p (strings.HasPrefix)
HasPrefix(s, p) == Len(s) >= Len(p) /\ SubSeq(s, 1, Len(p)) = p

ContentTypes ==
    {<<>>, <<"text/plain">>, <<"application/json">>,
     <<"application/json", "; charset=utf-8">>}

ImportLists == {<<>>, <<"fmt">>, <<"os/exec">>, <<"fmt", "unsafe">>}

Codes ==
    {[len |-> 0, imports |-> <<>>]}
        \cup {[len |-> n, imports |-> i] : n \in 1..(MaxCodeLen + 1), i \in ImportLists}

\* a body the JSON decoder rejects, or one that decodes to a CodeRequest
Bodies == {[undecodable |-> TRUE]} \cup {[code |-> c] : c \in Codes}

\* the values a request carries under one header name, in order; none when the
\* header is absent
HeaderValues(ips) == {<<>>, <<"">>} \cup {<<ip>> : ip \in ips}

\* http.Header.Get: the first value under the name, "" when there is none
Get(h) == IF Len(h) = 0 THEN "" ELSE h[1]

\* requests that reach the server directly: no forwarding header
Requests ==
    [xff : {<<>>}, xri : {<<>>}, remote : Clients,
     method : Methods, ctype : ContentTypes, body : Bodies]

\* requests that come through proxies: every combination of absent, empty and
\* set X-Forwarded-For and X-Real-IP, with a runnable or a refused body
ForwardedRequests ==
    [xff : HeaderValues({"ipA"}), xri : HeaderValues({"ipB"}), remote : Clients,
     method : {"POST"},
     ctype : {<<"application/json">>, <<"text/plain">>},
     body : {[code |-> [len |-> 1, imports |-> <<>>]]}]

\* a variant of GetClientIP that prefers X-Real-IP to X-Forwarded-For
GetClientIPRealFirst(req) ==
    IF Get(req.xri) # "" THEN Get(req.xri)
    ELSE IF Get(req.xff) # "" THEN Get(req.xff)
    ELSE req.remote

\* GetClientIP, part_009 lines 66-77
GetClientIP(req) ==
    IF Get(req.xff) # "" THEN Get(req.xff)
    ELSE IF Get(req.xri) # "" THEN Get(req.xri)
    ELSE req.remote

\* what the executor does when it is called: the chunks it writes to the
\* response, in order, and the error it returns
Runs == [out : {<<>>, <<"a">>, <<"a", "b">>}, err : {"", "error en la ejecucion"}]

\* ContainsBlacklistedImports, lines 38-64: the first of the extracted strings,
\* in the order of the source, that equals an entry of the denylist
ContainsBlacklistedImports(code) ==
    LET hits == {i \in 1..Len(code.imports) :
                    \E j \in 1..Len(blacklistedImports) :
                        code.imports[i] = blacklistedImports[j]}
    IN  IF hits = {} THEN [found |-> FALSE, pkg |-> ""]
        ELSE [found |-> TRUE,
              pkg |-> code.imports[CHOOSE i \in hits : \A h \in hits : i <= h]]

\* a variant of the validation that rejects a source of exactly maxCodeLength bytes
ValidateSourceStrict(code) ==
    IF code.len = 0 THEN <<"Error: El código no puede estar vacío">>
    ELSE IF code.len >= MaxCodeLen
    THEN <<"Error: El código excede el límite de ", MaxCodeLen, " bytes">>
    ELSE IF ContainsBlacklistedImports(code).found
    THEN <<"Error: Import prohibido por seguridad: ",
           ContainsBlacklistedImports(code).pkg>>
    ELSE <<>>

\* lines 137-162: the inline error line for a source that is empty, too long or
\* imports a denied package; <<>> for a source that may run
ValidateSource(code) ==
    IF code.len = 0 THEN <<"Error: El código no puede estar vacío">>
    ELSE IF code.len > MaxCodeLen
    THEN <<"Error: El código excede el límite de ", MaxCodeLen, " bytes">>
    ELSE IF ContainsBlacklistedImports(code).found
    THEN <<"Error: Import prohibido por seguridad: ",
           ContainsBlacklistedImports(code).pkg>>
    ELSE <<>>

\* a response: the pieces written to the body, the body lengths at which
\* flusher.Flush was called, whether the limiter was called and what it said,
\* whether SetSecurityHeaders ran, whether h.executor.Execute was called and
\* what it did
Response(status, body, flushes, adm, secure, invoked, run) ==
    [status |-> status, body |-> body, flushes |-> flushes,
     consulted |-> adm.consulted, admitted |-> adm.allowed, secure |-> secure,
     invoked |-> invoked, run |-> run]

NoRunYet == [out |-> <<>>, err |-> ""]

\* a variant of the admission that consults the limiter before the method check
AdmissionAnyMethod(req, r, t) ==
    LET adm == IsAllowed(r, GetClientIP(req), t)
    IN  IF req.method # "POST"
        THEN [consulted |-> FALSE, allowed |-> FALSE, rl |-> adm.rl]
        ELSE [consulted |-> TRUE, allowed |-> adm.allowed, rl |-> adm.rl]

\* lines 68-82: the limiter is called, for the identity of the client, only
\* past the method check
Admission(req, r, t) ==
    IF req.method # "POST"
    THEN [consulted |-> FALSE, allowed |-> FALSE, rl |-> r]
    ELSE LET adm == IsAllowed(r, GetClientIP(req), t)
         IN  [consulted |-> TRUE, allowed |-> adm.allowed, rl |-> adm.rl]

\* a variant of the rendering that writes the error line in place of the output
RenderRunErrorOnly(run) ==
    IF run.err # ""
    THEN [body |-> <<"\nError: ", run.err>>, flushes |-> <<2>>]
    ELSE [body |-> run.out, flushes |-> <<>>]

\* lines 175-184: the executor writes its chunks to w; on an error the handler
\* appends the line "\nError: <err>" and flushes, otherwise it only logs
RenderRun(run) ==
    IF run.err # ""
    THEN [body |-> run.out \o <<"\nError: ", run.err>>,
          flushes |-> <<Len(run.out) + 2>>]
    ELSE [body |-> run.out, flushes |-> <<>>]

\* HandleExecuteCode, lines 60-185, with limiter r at time t: the response and
\* the limiter afterwards
HandleExecuteCode(req, r, t, run) ==
    LET adm == Admission(req, r, t)
        line == ValidateSource(req.body.code)
        resp ==
            IF req.method # "POST"
            THEN Response(StatusMethodNotAllowed, <<"Método no permitido">>, <<>>,
                          adm, FALSE, FALSE, NoRunYet)
            ELSE IF ~adm.allowed
            THEN Response(StatusTooManyRequests,
                          <<"Demasiadas peticiones. Por favor, espere un minuto.">>,
                          <<>>, adm, FALSE, FALSE, NoRunYet)
            ELSE IF ~HasPrefix(req.ctype, <<"application/json">>)
            THEN Response(StatusBadRequest,
                          <<"Content-Type debe ser application/json">>, <<>>,
                          adm, FALSE, FALSE, NoRunYet)
            ELSE IF req.body = [undecodable |-> TRUE]
            THEN Response(StatusBadRequest, <<"Solicitud inválida">>, <<>>,
                          adm, TRUE, FALSE, NoRunYet)
            ELSE IF line # <<>>
            THEN Response(StatusOK, line, <<Len(line)>>, adm, TRUE, FALSE, NoRunYet)
            ELSE Response(StatusOK, RenderRun(run).body, RenderRun(run).flushes,
                          adm, TRUE, TRUE, run)
    IN  [resp |-> resp, rl |-> adm.rl]

\* a request arrives and the handler serves it (a run of the executor is
\* chosen only for a request the handler passes on to it)
ServeRequest(req, run) ==
    /\ hreq = [none |-> TRUE]
    /\ LET res == HandleExecuteCode(req, rl, now, run)
       IN  /\ res.resp.invoked \/ run = [out |-> <<>>, err |-> ""]
           /\ hreq' = req
           /\ hresp' = res.resp
           /\ rl' = res.rl
    /\ UNCHANGED <<cfgMaxReq, now, calls, lastStatus, concVars, exVars, cacheVars,
                   cfgVars, filterVars, lockVars, startVars, edVars>>

\* the response has been sent; the server is ready for the next request
ResponseSent ==
    /\ hreq # [none |-> TRUE]
    /\ hreq' = [none |-> TRUE]
    /\ hresp' = [none |-> TRUE]
    /\ UNCHANGED <<limVars, concVars, exVars, cacheVars, cfgVars, filterVars, lockVars, startVars, edVars>>

HandlerNext ==
    \/ \E req \in Requests, run \in Runs : ServeRequest(req, run)
    \/ ResponseSent
    \/ Tick

\* the same server behind proxies that set the forwarding headers
ForwardedNext ==
    \/ \E req \in ForwardedRequests, run \in Runs : ServeRequest(req, run)
    \/ ResponseSent
    \/ Tick

\* part_005 lines 71-107: the server with MaxRequestsPerMinute = 1, no request
\* served yet
HandlerInit ==
    /\ cfgMaxReq = 1
    /\ now = 0
    /\ rl = NewRateLimiter(cfgMaxReq)
    /\ calls = [ip \in Clients |-> <<>>]
    /\ lastStatus = 0
    /\ ConcIdle
    /\ ExecIdle
    /\ CacheIdle
    /\ HandlerIdle
    /\ ConfigIdle
    /\ FilterIdle
    /\ LockIdle
    /\ StartIdle
    /\ EditorIdle

SpecHandler == HandlerInit /\ [][HandlerNext]_vars

SpecForwarded == HandlerInit /\ [][ForwardedNext]_vars

\* ------------------------------------------------------ config.NewConfig
\* The environment gives each variable as unset or set to a string, a string
\* being the sequence of its characters.  int and time.Duration are two's
\* complement integers of IntBits bits, and a second is TicksPerSecond units of
\* time.Duration, so that seconds * time.Second wraps as it does in the code.

EnvKeys == {"MAX_REQUESTS_PER_MINUTE", "MAX_CODE_LENGTH", "EXECUTION_TIMEOUT_SECONDS"}

EnvStrings ==
    {<<>>, <<"a", "b", "c">>, <<"1", "x">>, <<" ", "5">>, <<"0">>, <<"-", "5">>,
     <<"1">>, <<"+", "7">>, <<"9", "9">>, <<"1", "0", "0">>, <<"2", "5", "0">>,
     <<"9", "9", "9">>}

EnvValues ==
    {[exists |-> FALSE, value |-> <<>>]}
        \cup {[exists |-> TRUE, value |-> v] : v \in EnvStrings}

MaxInt == 2^(IntBits - 1) - 1

\* the value of x in two's complement on IntBits bits
Wrap(x) ==
    LET m == x % 2^IntBits
    IN  IF m > MaxInt THEN m - 2^IntBits ELSE m

Digits == <<"0", "1", "2", "3", "4", "5", "6", "7", "8", "9">>

IsDigit(c) == \E i \in 1..Len(Digits) : Digits[i] = c

DigitValue(c) == (CHOOSE i \in 1..Len(Digits) : Digits[i] = c) - 1

RECURSIVE Decimal(_)
Decimal(s) ==
    IF s = <<>> THEN 0
    ELSE 10 * Decimal(SubSeq(s, 1, Len(s) - 1)) + DigitValue(s[Len(s)])

\* strconv.Atoi: an optional sign followed by one or more decimal digits, the
\* value within the range of int; anything else is an error
Atoi(s) ==
    LET signed == s # <<>> /\ s[1] \in {"+", "-"}
        digits == IF signed THEN Tail(s) ELSE s
        n == IF signed /\ s[1] = "-" THEN 0 - Decimal(digits) ELSE Decimal(digits)
    IN  IF digits = <<>> \/ \E i \in 1..Len(digits) : ~IsDigit(digits[i])
        THEN [ok |-> FALSE, n |-> 0]
        ELSE IF n > MaxInt \/ n < 0 - MaxInt - 1
        THEN [ok |-> FALSE, n |-> 0]
        ELSE [ok |-> TRUE, n |-> n]

\* getEnvInt, lines 140-147
getEnvInt(e, key, defaultValue) ==
    IF e[key].exists /\ e[key].value # <<>> /\ Atoi(e[key].value).ok
    THEN Atoi(e[key].value).n
    ELSE defaultValue

\* a variant of validateConfig without the floor on MaxCodeLength
validateConfigNoCodeFloor(cfg) ==
    [cfg EXCEPT
        !.MaxRequestsPerMinute = IF @ < 1 THEN 1 ELSE @,
        !.ExecutionTimeout = IF @ < TicksPerSecond THEN TicksPerSecond ELSE @]

\* validateConfig, lines 200-215: the floors
validateConfig(cfg) ==
    [cfg EXCEPT
        !.MaxRequestsPerMinute = IF @ < 1 THEN 1 ELSE @,
        !.MaxCodeLength = IF @ < 100 THEN 100 ELSE @,
        !.ExecutionTimeout = IF @ < TicksPerSecond THEN TicksPerSecond ELSE @]

\* NewConfig, lines 75-105: the limits read from the environment, then validated
NewConfig(e) ==
    validateConfig(
        [MaxRequestsPerMinute |->
             getEnvInt(e, "MAX_REQUESTS_PER_MINUTE", DefaultMaxRequestsPerMinute),
         MaxCodeLength |-> getEnvInt(e, "MAX_CODE_LENGTH", DefaultMaxCodeLength),
         ExecutionTimeout |->
             Wrap(getEnvInt(e, "EXECUTION_TIMEOUT_SECONDS",
                            DefaultExecutionTimeoutSeconds) * TicksPerSecond)])

\* main calls config.NewConfig()
LoadConfig ==
    /\ config = [none |-> TRUE]
    /\ config' = NewConfig(environ)
    /\ UNCHANGED <<limVars, concVars, exVars, cacheVars, hVars, environ, filterVars, lockVars, startVars, edVars>>

\* the process starts in any environment
ConfigInit ==
    /\ cfgMaxReq = 1
    /\ now = 0
    /\ rl = NewRateLimiter(cfgMaxReq)
    /\ calls = [ip \in Clients |-> <<>>]
    /\ lastStatus = 0
    /\ ConcIdle
    /\ ExecIdle
    /\ CacheIdle
    /\ HandlerIdle
    /\ FilterIdle
    /\ LockIdle
    /\ StartIdle
    /\ EditorIdle
    /\ environ \in [EnvKeys -> EnvValues]
    /\ config = [none |-> TRUE]

ConfigNext == LoadConfig

SpecConfig == ConfigInit /\ [][ConfigNext]_vars

\* ------------------------- CodeValidator.ContainsBlacklistedImports, on text
\* A source text is the sequence of its lexical pieces: keywords, identifiers,
\* import paths and comment words, the comment marker //, and the single
\* characters double quote, back quote, ( ) { } space, tab and newline.  The
\* text is their concatenation, and no piece other than those single characters
\* holds one.

\* the back quote that delimits a raw string literal
BackQuote == "<backquote>"

Paths == {"fmt", "os/exec", "unsafe", "net/url"}

\* what follows an import spec on its line: nothing, or a // comment
Comments == {<<>>, <<" ", "//", " ", "c">>, <<" ", "//", " ", ":", ")">>}

\* an import spec: plain or renamed, its path an interpreted or a raw string
ImportSpecs ==
    [alias : {"", "e"}, quote : {"\"", BackQuote}, path : Paths, comment : Comments]

\* an import declaration in single form, indented or not, or in block form
ImportDecls ==
    [form : {"single"}, indent : {<<>>, <<"\t">>},
     specs : [1..1 -> ImportSpecs]]
        \cup [form : {"block"}, indent : {<<>>},
              specs : UNION {[1..n -> ImportSpecs] : n \in 1..MaxSpecs}]

SpecText(s) ==
    (IF s.alias = "" THEN <<>> ELSE <<s.alias, " ">>)
        \o <<s.quote, s.path, s.quote>> \o s.comment

RECURSIVE BlockLines(_)
BlockLines(specs) ==
    IF specs = <<>> THEN <<>>
    ELSE <<"\t">> \o SpecText(Head(specs)) \o <<"\n">> \o BlockLines(Tail(specs))

DeclText(d) ==
    IF d.form = "single"
    THEN d.indent \o <<"import", " ">> \o SpecText(d.specs[1]) \o <<"\n">>
    ELSE <<"import", " ", "(", "\n">> \o BlockLines(d.specs) \o <<")", "\n">>

\* the program text: package clause, the import declaration, func main
SourceText(d) ==
    <<"package", " ", "main", "\n">> \o DeclText(d)
        \o <<"func", " ", "main", "(", ")", " ", "{", "}", "\n">>

\* the class \s of the pattern
IsSpace(c) == c \in {" ", "\t", "\n"}

First(S) == CHOOSE x \in S : \A y \in S : x <= y

\* (?m)^\s*import : only white space lies between the start of a line and the
\* keyword at position p
AtLineStart(text, p) ==
    \A i \in 1..(p - 1) :
        (\A j \in i..(p - 1) : text[j] # "\n") => IsSpace(text[i])

NoMatch == [ok |-> FALSE, from |-> 0, to |-> 0]

\* importPattern matched with its keyword at position p: after the keyword and
\* \s*, either ( then one or more characters other than ) then ), or " then
\* one or more characters other than " then "; from..to is the captured group
MatchAt(text, p) ==
    LET after == {r \in (p + 1)..Len(text) : ~IsSpace(text[r])}
    IN  IF text[p] # "import" \/ ~AtLineStart(text, p) \/ after = {}
        THEN NoMatch
        ELSE LET r == First(after)
                 closer == IF text[r] = "(" THEN ")" ELSE "\""
                 close == {c \in (r + 1)..Len(text) : text[c] = closer}
             IN  IF text[r] \notin {"(", "\""} \/ close = {}
                 THEN NoMatch
                 ELSE IF First(close) = r + 1
                 THEN NoMatch
                 ELSE [ok |-> TRUE, from |-> r, to |-> First(close)]

\* importPattern.FindAllStringSubmatch(code, -1), line 40: the captured groups
\* of the successive matches, each search starting where the last match ended
RECURSIVE FindAllFrom(_, _)
FindAllFrom(text, from) ==
    LET found == {p \in from..Len(text) : MatchAt(text, p).ok}
    IN  IF found = {} THEN <<>>
        ELSE LET m == MatchAt(text, First(found))
             IN  <<SubSeq(text, m.from, m.to)>> \o FindAllFrom(text, m.to + 1)

FindAllStringSubmatch(text) == FindAllFrom(text, 1)

\* strings.ReplaceAll(s, c, "") for a single character c
ReplaceAll(q, c) == SelectSeq(q, LAMBDA x : x # c)

\* strings.Split(s, sep): the pieces between the occurrences of sep
RECURSIVE Split(_, _)
Split(q, sep) ==
    LET at == {i \in 1..Len(q) : q[i] = sep}
    IN  IF at = {} THEN <<q>>
        ELSE <<SubSeq(q, 1, First(at) - 1)>>
                 \o Split(SubSeq(q, First(at) + 1, Len(q)), sep)

\* strings.TrimSpace
RECURSIVE TrimSpace(_)
TrimSpace(q) ==
    IF q = <<>> THEN q
    ELSE IF IsSpace(q[1]) THEN TrimSpace(Tail(q))
    ELSE IF IsSpace(q[Len(q)]) THEN TrimSpace(SubSeq(q, 1, Len(q) - 1))
    ELSE q

\* strings.Trim(s, c) for a single character c
RECURSIVE Trim(_, _)
Trim(q, c) ==
    IF q = <<>> THEN q
    ELSE IF q[1] = c THEN Trim(Tail(q), c)
    ELSE IF q[Len(q)] = c THEN Trim(SubSeq(q, 1, Len(q) - 1), c)
    ELSE q

\* the string a sequence of pieces spells
RECURSIVE Join(_)
Join(q) == IF q = <<>> THEN "" ELSE q[1] \o Join(Tail(q))

\* lines 43-52 for one captured group: parentheses removed, split in lines, and
\* of each line what precedes //, without surrounding space and quotes
CleanImports(group) ==
    LET lines == Split(ReplaceAll(ReplaceAll(group, "("), ")"), "\n")
    IN  [i \in 1..Len(lines) |->
            Join(Trim(TrimSpace(Split(lines[i], "//")[1]), "\""))]

RECURSIVE Flatten(_)
Flatten(qq) == IF qq = <<>> THEN <<>> ELSE Head(qq) \o Flatten(Tail(qq))

\* the strings ContainsBlacklistedImports compares with the denylist, in order
ImportsSeen(text) ==
    LET groups == FindAllStringSubmatch(text)
    IN  Flatten([i \in 1..Len(groups) |-> CleanImports(groups[i])])

\* the source as the handler sees it
CodeOf(text) == [len |-> Len(text), imports |-> ImportsSeen(text)]

\* the safety filter is run on the source
CheckSource ==
    /\ verdict = [none |-> TRUE]
    /\ verdict' = ContainsBlacklistedImports(CodeOf(SourceText(source)))
    /\ UNCHANGED <<limVars, concVars, exVars, cacheVars, hVars, cfgVars, lockVars, startVars, edVars, source>>

\* a source with one import declaration is about to be filtered
FilterInit ==
    /\ cfgMaxReq = 1
    /\ now = 0
    /\ rl = NewRateLimiter(cfgMaxReq)
    /\ calls = [ip \in Clients |-> <<>>]
    /\ lastStatus = 0
    /\ ConcIdle
    /\ ExecIdle
    /\ CacheIdle
    /\ HandlerIdle
    /\ ConfigIdle
    /\ source \in ImportDecls
    /\ verdict = [none |-> TRUE]
    /\ LockIdle
    /\ StartIdle
    /\ EditorIdle

FilterNext == CheckSource

SpecFilter == FilterInit /\ [][FilterNext]_vars

\* ------------------------------------- the fixed-window RateLimiter
\* The limiter of server.go (isAllowed) and of part_006 (IsAllowed): per client
\* a count and the time the window began.  rl holds this limiter here.

NoIPRequests == [none |-> TRUE]

\* time.Minute, in seconds
Minute == 60

NewFixedWindowLimiter(maxRequestsPerMin) ==
    [requests |-> [ip \in Clients |-> NoIPRequests],
     maxRequestsPerMin |-> maxRequestsPerMin]

\* isAllowed, run under rl.mu: the result and the limiter after it
isAllowed(r, ip, t) ==
    LET req == r.requests[ip]
    IN  IF req # NoIPRequests
        THEN IF t - req.lastTime > Minute
             THEN [allowed |-> TRUE,
                   rl |-> [r EXCEPT !.requests[ip] = [count |-> 1, lastTime |-> t]]]
             ELSE IF req.count < r.maxRequestsPerMin
             THEN [allowed |-> TRUE,
                   rl |-> [r EXCEPT !.requests[ip].count = @ + 1]]
             ELSE [allowed |-> FALSE, rl |-> r]
        ELSE [allowed |-> TRUE,
              rl |-> [r EXCEPT !.requests[ip] = [count |-> 1, lastTime |-> t]]]

\* a request of client ip reaches the limiter
WindowRequest(ip) ==
    /\ Len(calls[ip]) < MaxCalls
    /\ LET res == isAllowed(rl, ip, now)
           st == IF res.allowed THEN 0 ELSE StatusTooManyRequests
       IN  /\ rl' = res.rl
           /\ calls' = [calls EXCEPT ![ip] =
                           Append(@, [at |-> now, allowed |-> res.allowed,
                                      status |-> st])]
           /\ lastStatus' = st
    /\ UNCHANGED <<cfgMaxReq, now, concVars, exVars, cacheVars, hVars, cfgVars, filterVars, lockVars, startVars, edVars>>

WindowInit ==
    /\ cfgMaxReq \in 1..MaxCapacity
    /\ now = 0
    /\ rl = NewFixedWindowLimiter(cfgMaxReq)
    /\ calls = [ip \in Clients |-> <<>>]
    /\ lastStatus = 0
    /\ ConcIdle
    /\ ExecIdle
    /\ CacheIdle
    /\ HandlerIdle
    /\ ConfigIdle
    /\ FilterIdle
    /\ LockIdle
    /\ StartIdle
    /\ EditorIdle

WindowNext ==
    \/ \E ip \in Clients : WindowRequest(ip)
    \/ Advance

SpecWindow == WindowInit /\ [][WindowNext]_vars

\* -------------------------------------- ce.cacheMutex, lock by lock
\* CachedExecutor.Execute with every RLock, RUnlock, Lock and Unlock a step of
\* its own.  What the lookup finds and what the wrapped executor returns are
\* any of the outcomes the cache model above produces.

Free == readers = {} /\ writer = NoHolder

\* a request enters Execute and reaches line 106
EnterExecute(w) ==
    /\ lpc[w] = "idle"
    /\ lpc' = [lpc EXCEPT ![w] = "rlock"]
    /\ UNCHANGED <<limVars, concVars, exVars, cacheVars, hVars, cfgVars, filterVars, startVars,
                   edVars, readers, writer, statsToRun>>

\* line 106: ce.cacheMutex.RLock() returns once no writer holds the mutex
RLock(w) ==
    /\ lpc[w] = "rlock"
    /\ writer = NoHolder
    /\ readers' = readers \cup {w}
    /\ lpc' = [lpc EXCEPT ![w] = "lookup"]
    /\ UNCHANGED <<limVars, concVars, exVars, cacheVars, hVars, cfgVars, filterVars, startVars,
                   edVars, writer, statsToRun>>

\* a variant of the lookup that keeps the read lock while the cached bytes are
\* written
CacheMutexLookupKeepsLock(w, found) ==
    /\ lpc[w] = "lookup"
    /\ IF found
       THEN /\ statsToRun < MaxExecCalls
            /\ statsToRun' = statsToRun + 1
            /\ lpc' = [lpc EXCEPT ![w] = "write"]
            /\ UNCHANGED readers
       ELSE /\ lpc' = [lpc EXCEPT ![w] = "inner"]
            /\ readers' = readers \ {w}
            /\ UNCHANGED statsToRun
    /\ UNCHANGED <<limVars, concVars, exVars, cacheVars, hVars, cfgVars, filterVars, startVars,
                   edVars, writer>>

\* lines 107-123: the lookup under the read lock; RUnlock on the hit path (111),
\* where the update goroutine is started (114), and on the miss path (123)
CacheMutexLookup(w, found) ==
    /\ lpc[w] = "lookup"
    /\ readers' = readers \ {w}
    /\ IF found
       THEN /\ statsToRun < MaxExecCalls
            /\ statsToRun' = statsToRun + 1
            /\ lpc' = [lpc EXCEPT ![w] = "write"]
       ELSE /\ lpc' = [lpc EXCEPT ![w] = "inner"]
            /\ UNCHANGED statsToRun
    /\ UNCHANGED <<limVars, concVars, exVars, cacheVars, hVars, cfgVars, filterVars, startVars,
                   edVars, writer>>

\* lines 117-118: output.Write(entry.Result) returns, however long the client
\* took; Execute returns
WriteReturns(w) ==
    /\ lpc[w] = "write"
    /\ lpc' = [lpc EXCEPT ![w] = "idle"]
    /\ UNCHANGED <<limVars, concVars, exVars, cacheVars, hVars, cfgVars, filterVars, startVars,
                   edVars, readers, writer, statsToRun>>

\* lines 135-138: the wrapped executor returns; an error is returned as it is
ExecutorReturns(w, ok) ==
    /\ lpc[w] = "inner"
    /\ lpc' = [lpc EXCEPT ![w] = IF ok THEN "lock" ELSE "idle"]
    /\ UNCHANGED <<limVars, concVars, exVars, cacheVars, hVars, cfgVars, filterVars, startVars,
                   edVars, readers, writer, statsToRun>>

\* line 141: ce.cacheMutex.Lock() returns once nobody holds the mutex
CacheMutexLock(w) ==
    /\ lpc[w] = "lock"
    /\ Free
    /\ writer' = w
    /\ lpc' = [lpc EXCEPT ![w] = "store"]
    /\ UNCHANGED <<limVars, concVars, exVars, cacheVars, hVars, cfgVars, filterVars, startVars,
                   edVars, readers, statsToRun>>

\* lines 145-157: the store, and the deferred Unlock (142) as Execute returns
StoreReturns(w) ==
    /\ lpc[w] = "store"
    /\ writer' = NoHolder
    /\ lpc' = [lpc EXCEPT ![w] = "idle"]
    /\ UNCHANGED <<limVars, concVars, exVars, cacheVars, hVars, cfgVars, filterVars, startVars,
                   edVars, readers, statsToRun>>

\* lines 172-173: an updateCacheStats goroutine takes the write lock
StatsLock ==
    /\ statsToRun > 0
    /\ Free
    /\ writer' = "stats"
    /\ statsToRun' = statsToRun - 1
    /\ UNCHANGED <<limVars, concVars, exVars, cacheVars, hVars, cfgVars, filterVars, startVars,
                   edVars, lpc, readers>>

\* lines 175-179 and the deferred Unlock
StatsUnlock ==
    /\ writer = "stats"
    /\ writer' = NoHolder
    /\ UNCHANGED <<limVars, concVars, exVars, cacheVars, hVars, cfgVars, filterVars, startVars,
                   edVars, lpc, readers, statsToRun>>

\* lines 223-224: a pass of the cleaner takes the write lock
CleanerLock ==
    /\ Free
    /\ writer' = "cleaner"
    /\ UNCHANGED <<limVars, concVars, exVars, cacheVars, hVars, cfgVars, filterVars, startVars,
                   edVars, lpc, readers, statsToRun>>

\* lines 226-231 and the deferred Unlock
CleanerUnlock ==
    /\ writer = "cleaner"
    /\ writer' = NoHolder
    /\ UNCHANGED <<limVars, concVars, exVars, cacheVars, hVars, cfgVars, filterVars, startVars,
                   edVars, lpc, readers, statsToRun>>

LockInit ==
    /\ cfgMaxReq = 1
    /\ now = 0
    /\ rl = NewRateLimiter(cfgMaxReq)
    /\ calls = [ip \in Clients |-> <<>>]
    /\ lastStatus = 0
    /\ ConcIdle
    /\ ExecIdle
    /\ CacheIdle
    /\ HandlerIdle
    /\ ConfigIdle
    /\ FilterIdle
    /\ StartIdle
    /\ EditorIdle
    /\ lpc = [w \in Workers |-> "idle"]
    /\ readers = {}
    /\ writer = NoHolder
    /\ statsToRun = 0

LockNext ==
    \/ \E w \in Workers : EnterExecute(w)
    \/ \E w \in Workers : RLock(w)
    \/ \E w \in Workers, found \in BOOLEAN : CacheMutexLookup(w, found)
    \/ \E w \in Workers : WriteReturns(w)
    \/ \E w \in Workers, ok \in BOOLEAN : ExecutorReturns(w, ok)
    \/ \E w \in Workers : CacheMutexLock(w)
    \/ \E w \in Workers : StoreReturns(w)
    \/ StatsLock
    \/ StatsUnlock
    \/ CleanerLock
    \/ CleanerUnlock

SpecLock == LockInit /\ [][LockNext]_vars

\* ------------------------------------------------- the start of main
\* main reads the parameters of the cache from the environment, builds the
\* cached executor, whose constructor starts the cleaner goroutine, and serves.
\* A Duration is counted in units of 1/MinuteTicks minute.

StartKeys == {"MAX_CACHE_SIZE", "CACHE_TTL_MINUTES"}

\* the quotient of Go's integer division, which truncates toward zero
Quot(a, b) == IF a >= 0 THEN a \div b ELSE 0 - ((0 - a) \div b)

\* part_005 lines 84-91 and NewCachedExecutor: the executor is built with the
\* values read, and go ce.cleanupRoutine() is started
StartServer ==
    /\ server = [none |-> TRUE]
    /\ server' =
           [state |-> "running",
            maxCacheSize |-> getEnvInt(environ, "MAX_CACHE_SIZE", DefaultMaxCacheSize),
            ttl |-> Wrap(getEnvInt(environ, "CACHE_TTL_MINUTES", DefaultCacheTTLMinutes)
                             * MinuteTicks),
            cleaner |-> "starting", period |-> 0, served |-> 0, passes |-> 0]
    /\ UNCHANGED <<limVars, concVars, exVars, cacheVars, hVars, cfgVars, filterVars, lockVars,
                   edVars>>

\* cleanupRoutine line 212: time.NewTicker(ce.ttl / 2) panics when its argument
\* is not positive; a panic in a goroutine that nothing recovers ends the process
CleanupRoutine ==
    /\ server # [none |-> TRUE]
    /\ server.state = "running"
    /\ server.cleaner = "starting"
    /\ LET d == Quot(server.ttl, 2)
       IN  server' = IF d > 0
                     THEN [server EXCEPT !.cleaner = "ticking", !.period = d]
                     ELSE [server EXCEPT !.cleaner = "panicked", !.state = "crashed"]
    /\ UNCHANGED <<limVars, concVars, exVars, cacheVars, hVars, cfgVars, filterVars, lockVars,
                   edVars>>

\* lines 215-217: the ticker fires and cleanupCache runs
CleanerPass ==
    /\ server # [none |-> TRUE]
    /\ server.state = "running"
    /\ server.cleaner = "ticking"
    /\ server.passes < MaxServed
    /\ server' = [server EXCEPT !.passes = @ + 1]
    /\ UNCHANGED <<limVars, concVars, exVars, cacheVars, hVars, cfgVars, filterVars, lockVars,
                   edVars>>

\* the process, while it runs, serves a request
ServeOne ==
    /\ server # [none |-> TRUE]
    /\ server.state = "running"
    /\ server.served < MaxServed
    /\ server' = [server EXCEPT !.served = @ + 1]
    /\ UNCHANGED <<limVars, concVars, exVars, cacheVars, hVars, cfgVars, filterVars, lockVars,
                   edVars>>

\* the process starts in any environment
StartInit ==
    /\ cfgMaxReq = 1
    /\ now = 0
    /\ rl = NewRateLimiter(cfgMaxReq)
    /\ calls = [ip \in Clients |-> <<>>]
    /\ lastStatus = 0
    /\ ConcIdle
    /\ ExecIdle
    /\ CacheIdle
    /\ HandlerIdle
    /\ FilterIdle
    /\ LockIdle
    /\ EditorIdle
    /\ environ \in [StartKeys -> EnvValues]
    /\ config = [none |-> TRUE]
    /\ server = [none |-> TRUE]

StartNext ==
    \/ StartServer
    \/ CleanupRoutine
    \/ CleanerPass
    \/ ServeOne

SpecStart == StartInit /\ [][StartNext]_vars

\* ------------------------------------------------------ the web editor
\* useEditor and the handlers of App.  A tab is seen as its id and its mode; an
\* id as the name it begins with and the value of Date.now() it ends with (-1
\* for the id of the first tab, which has none).

Modes == {"go", "json", "markdown"}

\* Object.keys(examples)[0] of the examples of a mode
FirstExampleKey(m) ==
    CASE m = "go" -> "hello-world"
      [] m = "json" -> "first-json"
      [] m = "markdown" -> "first-markdown"

\* the values the example selector offers in a mode
ExampleChoices(m) == {FirstExampleKey(m), "user-code"}

IsExample(m, key) == key = FirstExampleKey(m)

\* tabs.filter(tab => tab.mode === m)
FilterMode(ts, m) == SelectSeq(ts, LAMBDA t : t.mode = m)

\* prev.filter(tab => tab.id !== id)
FilterOut(ts, id) == SelectSeq(ts, LAMBDA t : t.id # id)

\* findIndex, counted from 1; 0 when there is none
FindIndex(ts, id) ==
    IF \E i \in 1..Len(ts) : ts[i].id = id
    THEN CHOOSE i \in 1..Len(ts) :
             ts[i].id = id /\ \A j \in 1..(i - 1) : ts[j].id # id
    ELSE 0

NewId(name) == [name |-> name, at |-> clock]

\* useEditor lines 137-174
handleModeChange(newMode) ==
    /\ mode' = newMode
    /\ IF FilterMode(tabs, newMode) # <<>>
       THEN /\ activeTabId' = FilterMode(tabs, newMode)[1].id
            /\ UNCHANGED <<tabs, selectedExamples>>
       ELSE /\ Len(tabs) < MaxTabs
            /\ selectedExamples' =
                   IF IsExample(newMode, selectedExamples[newMode])
                   THEN selectedExamples
                   ELSE [selectedExamples EXCEPT ![newMode] = FirstExampleKey(newMode)]
            /\ tabs' = Append(tabs, [id |-> NewId(FirstExampleKey(newMode)),
                                     mode |-> newMode])
            /\ activeTabId' = NewId(FirstExampleKey(newMode))
    /\ UNCHANGED <<limVars, concVars, exVars, cacheVars, hVars, cfgVars, filterVars, lockVars,
                   startVars, clock, imports>>

\* Tabs line 25: a click on a tab of the current mode
handleTabChange(i) ==
    /\ i \in 1..Len(tabs)
    /\ tabs[i].mode = mode
    /\ activeTabId' = tabs[i].id
    /\ UNCHANGED <<limVars, concVars, exVars, cacheVars, hVars, cfgVars, filterVars, lockVars,
                   startVars, mode, tabs, selectedExamples, clock, imports>>

\* App lines 265-285
handleNewTab ==
    /\ Len(tabs) < MaxTabs
    /\ tabs' = Append(tabs, [id |-> NewId("tab"), mode |-> mode])
    /\ activeTabId' = NewId("tab")
    /\ selectedExamples' = [selectedExamples EXCEPT ![mode] = "user-code"]
    /\ UNCHANGED <<limVars, concVars, exVars, cacheVars, hVars, cfgVars, filterVars, lockVars,
                   startVars, mode, clock, imports>>

\* App lines 303-330
handleExampleChange(newExample) ==
    IF newExample = "user-code"
    THEN handleNewTab
    ELSE /\ Len(tabs) < MaxTabs
         /\ tabs' = Append(tabs, [id |-> NewId("tab"), mode |-> mode])
         /\ activeTabId' = NewId("tab")
         /\ selectedExamples' = [selectedExamples EXCEPT ![mode] = newExample]
         /\ UNCHANGED <<limVars, concVars, exVars, cacheVars, hVars, cfgVars, filterVars, lockVars,
                        startVars, mode, clock, imports>>

\* App lines 287-301, for the close button of the i-th tab, which Tabs shows
\* when the tab is of the current mode; with a single tab of the mode nothing
\* changes
handleCloseTab(i) ==
    /\ i \in 1..Len(tabs)
    /\ tabs[i].mode = mode
    /\ Len(FilterMode(tabs, mode)) # 1
    /\ LET tabId == tabs[i].id
           currentModeTabs == FilterMode(tabs, mode)
           currentTabIndex == FindIndex(currentModeTabs, tabId)
           nextTab == IF currentTabIndex + 1 <= Len(currentModeTabs)
                      THEN currentModeTabs[currentTabIndex + 1]
                      ELSE currentModeTabs[currentTabIndex - 1]
       IN  /\ activeTabId' = IF activeTabId = tabId THEN nextTab.id ELSE activeTabId
           /\ tabs' = FilterOut(tabs, tabId)
    /\ UNCHANGED <<limVars, concVars, exVars, cacheVars, hVars, cfgVars, filterVars, lockVars,
                   startVars, mode, selectedExamples, clock, imports>>

\* App lines 357-371: a file with the extension of the current mode is chosen
\* and file.text() is awaited; the rest of the handler keeps the mode it was
\* called in
FileImportStarts ==
    /\ Len(imports) < MaxImports
    /\ imports' = Append(imports, mode)
    /\ UNCHANGED <<limVars, concVars, exVars, cacheVars, hVars, cfgVars, filterVars, lockVars,
                   startVars, mode, tabs, activeTabId, selectedExamples, clock>>

\* App lines 371-384: file.text() resolves
FileImportResolves ==
    /\ imports # <<>>
    /\ Len(tabs) < MaxTabs
    /\ tabs' = Append(tabs, [id |-> NewId("tab"), mode |-> Head(imports)])
    /\ activeTabId' = NewId("tab")
    /\ selectedExamples' = [selectedExamples EXCEPT ![Head(imports)] = "user-code"]
    /\ imports' = Tail(imports)
    /\ UNCHANGED <<limVars, concVars, exVars, cacheVars, hVars, cfgVars, filterVars, lockVars,
                   startVars, mode, clock>>

\* App lines 385-387: file.text() rejects
FileImportRejects ==
    /\ imports # <<>>
    /\ imports' = Tail(imports)
    /\ UNCHANGED <<limVars, concVars, exVars, cacheVars, hVars, cfgVars, filterVars, lockVars,
                   startVars, mode, tabs, activeTabId, selectedExamples, clock>>

\* a millisecond passes
ClockTick ==
    /\ clock < MaxClock
    /\ clock' = clock + 1
    /\ UNCHANGED <<limVars, concVars, exVars, cacheVars, hVars, cfgVars, filterVars, lockVars,
                   startVars, mode, tabs, activeTabId, selectedExamples, imports>>

\* useEditor lines 86-102
EditorInit ==
    /\ cfgMaxReq = 1
    /\ now = 0
    /\ rl = NewRateLimiter(cfgMaxReq)
    /\ calls = [ip \in Clients |-> <<>>]
    /\ lastStatus = 0
    /\ ConcIdle
    /\ ExecIdle
    /\ CacheIdle
    /\ HandlerIdle
    /\ ConfigIdle
    /\ FilterIdle
    /\ LockIdle
    /\ StartIdle
    /\ mode = "go"
    /\ selectedExamples = [m \in Modes |-> FirstExampleKey(m)]
    /\ tabs = <<[id |-> [name |-> "hello-world", at |-> -1], mode |-> "go"]>>
    /\ activeTabId = [name |-> "hello-world", at |-> -1]
    /\ clock = 0
    /\ imports = <<>>

EditorNext ==
    \/ \E m \in Modes : handleModeChange(m)
    \/ \E i \in 1..MaxTabs : handleTabChange(i)
    \/ handleNewTab
    \/ \E m \in Modes : \E e \in ExampleChoices(m) : m = mode /\ handleExampleChange(e)
    \/ \E i \in 1..MaxTabs : handleCloseTab(i)
    \/ FileImportStarts
    \/ FileImportResolves
    \/ FileImportRejects
    \/ ClockTick

SpecEditor == EditorInit /\ [][EditorNext]_vars

\* ------------------------------------------------ claims on the limiter
Last(q) == q[Len(q)]

Instants == {k * StepSeconds : k \in 0..(MaxTime \div StepSeconds)}

\* the IsAllowed calls of ip admitted at a time within [s, e]
Admitted(ip, s, e) ==
    Cardinality({i \in 1..Len(calls[ip]) :
                    /\ calls[ip][i].allowed
                    /\ s <= calls[ip][i].at
                    /\ calls[ip][i].at <= e})

\* the step is an IsAllowed call for ip
IsCallFor(ip) == Len(calls'[ip]) = Len(calls[ip]) + 1

\* the tokens the caller's bucket holds once refilled at the time of the call
\* (a bucket created by the call is created full)
TokensAfterRefill(ip) ==
    IF rl.buckets[ip] = NoBucket THEN rl.capacity
    ELSE Refill(rl.buckets[ip], now).tokens

\* the limiter with every bucket but that of ip forgotten
OnlyBucketOf(ip) ==
    [rl EXCEPT !.buckets = [c \in Clients |->
                               IF c = ip THEN rl.buckets[ip] ELSE NoBucket]]

\* C1: the calls made for a client at the instant its bucket is created are
\* admitted up to the capacity-th and denied from the (capacity+1)-th on, and
\* a denied request is answered 429.
C1_BurstAdmitsCapacity ==
    \A ip \in Clients : \A i \in 1..Len(calls[ip]) :
        calls[ip][i].at = calls[ip][1].at =>
            /\ calls[ip][i].allowed <=> (i <= cfgMaxReq)
            /\ ~calls[ip][i].allowed => calls[ip][i].status = StatusTooManyRequests

\* C2: a call that returns true leaves the caller's bucket with one token fewer
\* than it held after refill, the call that creates the bucket included; a call
\* that returns false leaves the refilled amount.
C2_AdmissionTakesOneToken ==
    [][\A ip \in Clients :
          IsCallFor(ip) =>
              rl'.buckets[ip].tokens =
                  IF Last(calls'[ip]).allowed
                  THEN TokensAfterRefill(ip) - TokenUnit
                  ELSE TokensAfterRefill(ip)]_vars

\* C3: in every window [s, e] of at least 60 seconds the calls admitted for one
\* client number at most capacity + refillRate * (e - s).
C3_AdmissionRateBound ==
    \A ip \in Clients : \A s \in Instants, e \in Instants :
        (e <= now /\ e - s >= 60) =>
            Admitted(ip, s, e) * TokenUnit <= rl.capacity + rl.refillRate * (e - s)

\* C4: every bucket holds between 0 and capacity tokens, its capacity is
\* MaxRequestsPerMinute and its refill rate MaxRequestsPerMinute / 60 per second.
C4_BucketInvariant ==
    \A ip \in Clients :
        LET b == rl.buckets[ip]
        IN  b # NoBucket =>
                /\ 0 <= b.tokens
                /\ b.tokens <= b.capacity
                /\ b.capacity = cfgMaxReq * TokenUnit
                /\ b.refillRate * 60 = b.capacity

\* a call made after a refill is denied with a fraction of a token in the bucket
C4_Witness ==
    \E ip \in Clients :
        /\ Len(calls[ip]) >= 2
        /\ ~Last(calls[ip]).allowed
        /\ Last(calls[ip]).at > calls[ip][1].at
        /\ rl.buckets[ip].tokens > 0
        /\ rl.buckets[ip].tokens < TokenUnit

\* C5: a call for one client leaves every other client's bucket as it was, and
\* its result is the one the call gives with the other buckets forgotten.
C5_Isolation ==
    [][\A a \in Clients :
          IsCallFor(a) =>
              /\ \A b \in Clients \ {a} : rl'.buckets[b] = rl.buckets[b]
              /\ Last(calls'[a]).allowed = IsAllowed(OnlyBucketOf(a), a, now).allowed]_vars

\* a call was just made for one client while another client's bucket, last
\* refilled earlier, is partly used
C5_Witness ==
    \E a \in Clients, b \in Clients :
        /\ a # b
        /\ calls[a] # <<>>
        /\ Last(calls[a]).at = now
        /\ rl.buckets[a].lastRefillTime = now
        /\ rl.buckets[b] # NoBucket
        /\ rl.buckets[b].lastRefillTime < now
        /\ rl.buckets[b].tokens < rl.capacity

\* C6: concurrent IsAllowed calls give the results, and leave the limiter, that
\* the same calls give when made one after the other in the order they took
\* rl.mu; no bucket ever holds fewer than 0 tokens.
C6_Linearizable ==
    /\ \A ip \in Clients : rl.buckets[ip] # NoBucket => rl.buckets[ip].tokens >= 0
    /\ (\A i \in 1..Len(lin) : lin[i].done) =>
           LET seq == Sequential(NewRateLimiter(cfgMaxReq), lin)
           IN  /\ \A i \in 1..Len(lin) : lin[i].allowed = seq.results[i]
               /\ rl = seq.rl

\* two handlers called IsAllowed for one client at the same time while its bucket
\* held exactly one token: the call that took the lock first, with the other
\* waiting for it, got the token and the other was denied
C6_Witness ==
    \E i \in 1..Len(lin) :
        /\ i + 1 <= Len(lin)
        /\ lin[i].contended
        /\ lin[i].done /\ lin[i + 1].done
        /\ lin[i].t # lin[i + 1].t
        /\ lin[i].ip = lin[i + 1].ip
        /\ lin[i].at = lin[i + 1].at
        /\ lin[i].allowed /\ ~lin[i + 1].allowed
        /\ rl.buckets[lin[i].ip].tokens = 0

\* ----------------------------------------------- claims on the executor
\* what the writer must have received when the process group wrote n bytes
Expected(n) ==
    [i \in 1..Min(n, maxOutputLength) |-> i]
        \o (IF n > maxOutputLength THEN TruncationMarker ELSE <<>>)

\* C7: once the context is done while the child runs, Execute eventually
\* returns, and by then no process of the child's group is running.  (Runs in
\* which a read of the pipe fails leave Execute on another path and are not
\* held against the claim here.)
C7_CancellationLiveness ==
    (ctxDone /\ child = "running")
        ~> ((xpc = "returned" /\ GroupDead) \/ xerr = "error leyendo salida")

\* C8: while the child runs, a client that has disconnected has had the
\* context of the execution cancelled (no wait for the deadline).
C8_DisconnectCancels ==
    (clientGone /\ child = "running") => ctxDone

\* C9: the executor never hands the writer more than MaxOutputLength + 24 bytes.
C9_OutputBound ==
    Len(written) <= maxOutputLength + 24

\* a run that was truncated after forwarding a non-empty prefix has returned
C9_Witness ==
    /\ xpc = "returned"
    /\ maxOutputLength > 0
    /\ produced > maxOutputLength + 1
    /\ Len(written) = maxOutputLength + MarkerLen

\* C10 as stated: when Execute has returned, the writer has received the first
\* min(L, MaxOutputLength) of the L bytes written by the child, in order, then
\* the marker once if and only if L > MaxOutputLength, and nothing else.
C10_TruncationAwareStreaming ==
    xpc = "returned" => written = Expected(produced)

\* C10 amended: the same, unless a read of the pipe failed with a non-EOF
\* error; then the writer has received exactly the bytes read before the
\* failure, a prefix of the first min(L, MaxOutputLength) bytes, and no marker.
C10_StreamingUnlessReadError ==
    xpc = "returned" =>
        IF xerr = "error leyendo salida"
        THEN /\ written = [i \in 1..totalBytes |-> i]
             /\ totalBytes <= Min(produced, maxOutputLength)
        ELSE written = Expected(produced)

\* a run whose output exceeded a positive MaxOutputLength has returned without
\* a read error
C10_Witness ==
    /\ xpc = "returned"
    /\ xerr # "error leyendo salida"
    /\ maxOutputLength > 0
    /\ produced > maxOutputLength
    /\ Len(written) = maxOutputLength + MarkerLen

\* a run whose output is exactly MaxOutputLength bytes long has returned
C10_WitnessExact ==
    /\ xpc = "returned"
    /\ xerr = ""
    /\ maxOutputLength > 0
    /\ produced = maxOutputLength
    /\ Len(written) = maxOutputLength

\* the read loop has written the truncation marker
Truncated == Len(written) = totalBytes + MarkerLen

\* C11: once the marker has been written Execute goes on to return by its own
\* steps, the context not being done: it does not stay in cmd.Wait for the
\* child to exit by itself or for the deadline of the context to kill it.
C11_TruncationClosesChild ==
    (Truncated /\ xpc = "wait") ~> (xpc = "returned" \/ ctxDone)

\* C12: Execute makes at most RemoveAttempts os.Remove calls and none when the
\* file could not be created; an attempt after which the file is gone ends the
\* loop; and when Execute has returned the file is still on disk only if
\* RemoveAttempts attempts were made and every one of them failed.
C12_TempFileHygiene ==
    /\ [](/\ removeTries <= RemoveAttempts
          /\ xerr = "error creando archivo temporal" => (~tmpExists /\ removeTries = 0)
          /\ (xpc = "returned" /\ tmpExists) => removeTries = RemoveAttempts)
    /\ [][(removeTries' # removeTries /\ ~tmpExists') => xpc' = "returned"]_vars

\* Execute has returned from a failed read with the file removed by the last of
\* the attempts
C12_Witness ==
    /\ xpc = "returned"
    /\ xerr = "error leyendo salida"
    /\ removeTries = RemoveAttempts
    /\ ~tmpExists

\* ------------------------------------------------- claims on the cache
\* worker w leaves the lookup in this step
Looks(w) == wk[w].pc = "lookup" /\ wk'[w].pc # "lookup"

KeyOf(w) == hashCode(wk[w].src)

\* C13 as stated: a call for a source looked up within TTL of the latest
\* execution of that source whose result was stored is a hit on the bytes that
\* execution captured, writes exactly those bytes and does not invoke the
\* wrapped executor.
C13_CacheDeterminism ==
    [][\A w \in Workers :
          /\ Looks(w) =>
                LET run == lastRun[KeyOf(w)]
                IN  (run # NoRun /\ now - run.at <= CacheTTL) =>
                        /\ wk'[w].pc = "hit"
                        /\ wk'[w].entry = run.captured
                        /\ ~wk'[w].invoked
          /\ (wk[w].pc = "hit" /\ wk'[w].pc # "hit") =>
                (wk'[w].wrote = wk[w].entry /\ ~wk'[w].invoked)]_vars

\* C13 amended: the same, for an execution whose entry no later store has
\* evicted to make room.
C13_DeterminismUnlessEvicted ==
    [][\A w \in Workers :
          /\ Looks(w) =>
                LET run == lastRun[KeyOf(w)]
                IN  (run # NoRun /\ ~run.evicted /\ now - run.at <= CacheTTL) =>
                        /\ wk'[w].pc = "hit"
                        /\ wk'[w].entry = run.captured
                        /\ ~wk'[w].invoked
          /\ (wk[w].pc = "hit" /\ wk'[w].pc # "hit") =>
                (wk'[w].wrote = wk[w].entry /\ ~wk'[w].invoked)]_vars

\* a call for s1 is a hit on the bytes captured earlier, another source having
\* been executed and stored in between
C13_Witness ==
    \E w \in Workers :
        /\ wk[w].pc = "hit"
        /\ wk[w].src = "s1"
        /\ lastRun[hashCode("s1")] # NoRun
        /\ lastRun[hashCode("s2")] # NoRun
        /\ lastRun[hashCode("s2")].at > lastRun[hashCode("s1")].at
        /\ wk[w].entry = lastRun[hashCode("s1")].captured
        /\ wk[w].entry # <<>>

\* C14: the bytes stored in a cache entry are the bytes the wrapped executor
\* wrote during the run that was captured.
C14_CapturedEqualsEmitted ==
    [][\A w \in Workers :
          (wk[w].pc = "store" /\ wk'[w].pc # "store") =>
              cache'[KeyOf(w)].result = wk[w].emitted]_vars

\* C15: a lookup that finds an entry with now - lastAccess <= TTL takes the hit
\* path with that entry; the hit path writes exactly the entry's Result,
\* returns, and never invokes the wrapped executor.
C15_HitServesEntry ==
    [][\A w \in Workers :
          /\ (Looks(w) /\ cache[KeyOf(w)] # NoEntry
                       /\ now - cache[KeyOf(w)].lastAccess <= CacheTTL) =>
                /\ wk'[w].pc = "hit"
                /\ wk'[w].entry = cache[KeyOf(w)].result
                /\ ~wk'[w].invoked
          /\ (wk[w].pc = "hit" /\ wk'[w] # wk[w]) =>
                /\ wk'[w].pc = "idle"
                /\ wk'[w].wrote = wk[w].entry
                /\ ~wk'[w].invoked]_vars

\* a call has returned from the hit path having written a non-empty result
C15_Witness ==
    \E w \in Workers :
        /\ wk[w].pc = "idle"
        /\ wk[w].calls > 0
        /\ wk[w].wrote # <<>>
        /\ ~wk[w].invoked

\* C16: a call whose wrapped executor returns an error returns that error at
\* once, and the step leaves the cache as it was; no call that got an error is
\* ever at the store.
C16_FailureLeavesCache ==
    /\ [](\A w \in Workers : wk[w].pc = "store" => wk[w].err = "")
    /\ [][\A w \in Workers :
             (wk[w].pc = "inner" /\ wk'[w].err # "") =>
                 /\ wk'[w].pc = "idle"
                 /\ wk'[w].err = "error en la ejecucion"
                 /\ cache' = cache]_vars

\* a call has returned the wrapped executor's error, and the cache holds
\* another source's entry and nothing for the source of the call
C16_Witness ==
    \E w \in Workers :
        /\ wk[w].pc = "idle"
        /\ wk[w].invoked
        /\ wk[w].err = "error en la ejecucion"
        /\ cache[hashCode(wk[w].src)] = NoEntry
        /\ Present(cache) # {}

\* C17 as stated: a lookup made more than TTL after the execution that captured
\* the source's output invokes the wrapped executor.
C17_StalenessBound ==
    [][\A w \in Workers :
          Looks(w) =>
              LET run == lastRun[KeyOf(w)]
              IN  (run # NoRun /\ now - run.at > CacheTTL) =>
                      (wk'[w].pc = "inner" /\ wk'[w].invoked)]_vars

\* C17 amended: a lookup made more than TTL after the entry's last recorded
\* access invokes the wrapped executor; the last access is never earlier than
\* the capture and never later than the present.
C17_StaleAfterLastAccess ==
    /\ [](\A k \in Present(cache) :
             /\ lastRun[k] # NoRun
             /\ lastRun[k].at <= cache[k].lastAccess
             /\ cache[k].lastAccess <= now)
    /\ [][\A w \in Workers :
             (Looks(w) /\ cache[KeyOf(w)] # NoEntry
                       /\ now - cache[KeyOf(w)].lastAccess > CacheTTL) =>
                 (wk'[w].pc = "inner" /\ wk'[w].invoked)]_vars

\* a call runs the wrapped executor for a source whose entry, served from the
\* cache before, is still in the map and has expired
C17_Witness ==
    \E w \in Workers :
        /\ wk[w].pc = "inner"
        /\ cache[hashCode(wk[w].src)] # NoEntry
        /\ cache[hashCode(wk[w].src)].accessCount > 1
        /\ now - cache[hashCode(wk[w].src)].lastAccess > CacheTTL

\* C18: with MaxCacheSize >= 1 the cache never holds more than MaxCacheSize
\* entries.
C18_CacheCeiling ==
    maxCacheSize >= 1 => Cardinality(Present(cache)) <= maxCacheSize

\* the cache is full, a store having evicted an entry that had not expired
C18_Witness ==
    /\ maxCacheSize >= 1
    /\ Cardinality(Present(cache)) = maxCacheSize
    /\ \E k \in Keys :
           /\ lastRun[k] # NoRun
           /\ lastRun[k].evicted
           /\ now - lastRun[k].at <= CacheTTL

\* C19: with MaxCacheSize = 0 the cache stays empty and no call takes the hit
\* path.
C19_ZeroDisablesCache ==
    maxCacheSize = 0 =>
        /\ Present(cache) = {}
        /\ \A w \in Workers : wk[w].pc # "hit"

\* worker w stores the result of its execution in this step
Stores(w) == wk[w].pc = "store" /\ wk'[w].pc = "idle"

\* both workers have run the wrapped executor for the same source at the same
\* time, neither finding an entry, and both have returned nil
RaceFilled ==
    /\ \A w \in Workers :
           /\ wk[w].pc = "idle"
           /\ wk[w].calls = 1
           /\ wk[w].invoked
           /\ wk[w].err = ""
    /\ \A w, u \in Workers : wk[w].src = wk[u].src

\* C29: a store leaves under the key the bytes its own call captured, stamped
\* now, with accessCount 1, whatever entry an overlapping call for the same
\* source had stored before; a chunk the wrapped executor writes goes to the
\* writer and buffer of the call that runs it and to no other; and once two
\* overlapping calls for one source have both executed and returned nil, the
\* entry of the key, as long as it is in the cache, holds the bytes of the call
\* that stored last and accessCount 1.
C29_RaceToFill ==
    /\ [](RaceFilled =>
            \A w \in Workers :
                cache[KeyOf(w)] # NoEntry =>
                    /\ cache[KeyOf(w)].result = lastRun[KeyOf(w)].captured
                    /\ cache[KeyOf(w)].accessCount = 1)
    /\ [][\A w \in Workers :
            /\ Stores(w) =>
                   cache'[KeyOf(w)] = [result |-> wk[w].buffer, lastAccess |-> now,
                                       accessCount |-> 1]
            /\ wk'[w].emitted # wk[w].emitted =>
                   \A u \in Workers \ {w} : wk'[u] = wk[u]
         ]_vars

\* two overlapping calls for source s2 have both executed and stored, the first
\* one chunk, the second, whose client had gone, none: the entry holds no bytes
C29_Witness ==
    /\ RaceFilled
    /\ now = 0
    /\ \A w \in Workers : wk[w].src = "s2"
    /\ cache[hashCode("s2")] # NoEntry
    /\ cache[hashCode("s2")].result = <<>>
    /\ cache[hashCode("s2")].accessCount = 1

\* one call for s2 has stored a chunk and the other is about to store none
C29_WitnessSecondStore ==
    /\ wk["w1"].pc = "idle" /\ wk["w1"].invoked /\ wk["w1"].src = "s2"
    /\ wk["w2"].pc = "store" /\ wk["w2"].src = "s2" /\ wk["w2"].buffer = <<>>
    /\ cache[hashCode("s2")] # NoEntry
    /\ cache[hashCode("s2")].result = <<1>>

\* the entries of cache c that no entry precedes in last access
Oldest(c) ==
    {v \in Present(c) : \A u \in Present(c) : c[v].lastAccess <= c[u].lastAccess}

\* C30: a store into a cache that holds MaxCacheSize (at least one) entries
\* deletes exactly one entry, one that no entry precedes in last access, and then
\* writes its own; no entry that leaves the cache had a later last access than
\* one that stays.
C30_LruVictim ==
    [][\A w \in Workers :
          (Stores(w) /\ maxCacheSize >= 1
                     /\ Cardinality(Present(cache)) = maxCacheSize) =>
              LET k == KeyOf(w)
                  gone == {u \in Present(cache) : cache'[u] = NoEntry}
                  stay == {x \in Present(cache) : cache'[x] = cache[x]}
              IN  /\ \E v \in Oldest(cache) :
                         cache' = [cache EXCEPT
                                      ![v] = NoEntry,
                                      ![k] = [result |-> wk[w].buffer,
                                              lastAccess |-> now,
                                              accessCount |-> 1]]
                  /\ Cardinality(gone) <= 1
                  /\ \A u \in gone, x \in stay :
                         cache[u].lastAccess <= cache[x].lastAccess
    ]_vars

\* with room for two entries, the store of s2 has evicted the entry of s1, which
\* was the older of the two
C30_Witness ==
    /\ maxCacheSize = 2
    /\ cache[hashCode("s1")] = NoEntry
    /\ lastRun[hashCode("s1")] # NoRun
    /\ lastRun[hashCode("s1")].evicted
    /\ cache[hashCode("s2")] # NoEntry
    /\ lastRun[hashCode("s2")].at > lastRun[hashCode("s1")].at

\* C31: a lookup that finds an entry is a hit exactly when now - lastAccess <=
\* TTL; otherwise the wrapped executor is run, and the store that follows a
\* successful run puts {captured bytes, lastAccess = now, accessCount = 1} in
\* the place of the entry.
C31_TTLBoundary ==
    [][\A w \in Workers :
          /\ (Looks(w) /\ cache[KeyOf(w)] # NoEntry) =>
                 /\ (wk'[w].pc = "hit") <=>
                        (now - cache[KeyOf(w)].lastAccess <= CacheTTL)
                 /\ wk'[w].pc = "hit" =>
                        /\ ~wk'[w].invoked
                        /\ wk'[w].entry = cache[KeyOf(w)].result
                 /\ wk'[w].pc # "hit" => (wk'[w].pc = "inner" /\ wk'[w].invoked)
          /\ (Stores(w) /\ cache[KeyOf(w)] # NoEntry) =>
                 cache'[KeyOf(w)] = [result |-> wk[w].buffer, lastAccess |-> now,
                                     accessCount |-> 1]
    ]_vars

\* an entry exactly TTL old is being served
C31_Witness ==
    \E w \in Workers :
        /\ wk[w].pc = "hit"
        /\ cache[KeyOf(w)] # NoEntry
        /\ now - cache[KeyOf(w)].lastAccess = CacheTTL

\* an entry older than TTL was found, the source executed again and the entry
\* replaced
C31_WitnessReplaced ==
    \E w \in Workers :
        /\ wk[w].pc = "idle"
        /\ wk[w].invoked
        /\ wk[w].err = ""
        /\ wk[w].src = "s1"
        /\ now > CacheTTL
        /\ maxCacheSize >= 1
        /\ lastRun[hashCode("s1")].at = now
        /\ cache[hashCode("s1")] # NoEntry
        /\ cache[hashCode("s1")].lastAccess = now
        /\ cache[hashCode("s1")].accessCount = 1

\* a pass of the cleaner changes the cache in this step (a store moves a
\* worker, a statistics update takes a pending goroutine away)
Cleans == cache' # cache /\ wk' = wk /\ pendingStats' = pendingStats

\* C32: a pass of the cleaner removes the entries with now - lastAccess > TTL
\* and leaves every other entry as it was; no entry that a lookup at that
\* instant would serve is removed.
C32_CleanerFrame ==
    [][Cleans =>
          \A k \in Keys :
              /\ (cache[k] # NoEntry /\ now - cache[k].lastAccess > CacheTTL) =>
                     cache'[k] = NoEntry
              /\ ~(cache[k] # NoEntry /\ now - cache[k].lastAccess > CacheTTL) =>
                     cache'[k] = cache[k]
              /\ (cache[k] # NoEntry /\ now - cache[k].lastAccess <= CacheTTL) =>
                     cache'[k] # NoEntry
    ]_vars

\* the cleaner has removed the entry of s1, which no store had evicted, and
\* kept the entry of s2, which is exactly TTL old
C32_Witness ==
    /\ cache[hashCode("s1")] = NoEntry
    /\ lastRun[hashCode("s1")] # NoRun
    /\ ~lastRun[hashCode("s1")].evicted
    /\ cache[hashCode("s2")] # NoEntry
    /\ now - cache[hashCode("s2")].lastAccess = CacheTTL

\* an updateCacheStats goroutine for key k runs in this step
Updates(k) == pendingStats'[k] = pendingStats[k] - 1

\* C33 (as the code has it): every hit starts one update, which runs in the
\* end; when it runs it adds one to AccessCount and sets LastAccess to the time
\* of the update in the entry that is under the key at that moment, if there
\* is one, and changes nothing else; AccessCount is always at least 1, and is
\* 1 plus the number of updates that found the entry.
C33_HitBookkeepingByKey ==
    /\ \A k \in Keys : (pendingStats[k] > 0) ~> (pendingStats[k] = 0)
    /\ [][/\ \A w \in Workers :
                (Looks(w) /\ wk'[w].pc = "hit") =>
                    pendingStats' = [pendingStats EXCEPT ![KeyOf(w)] = @ + 1]
          /\ \A k \in Keys :
                Updates(k) =>
                    cache' = IF cache[k] = NoEntry THEN cache
                             ELSE [cache EXCEPT ![k] =
                                      [result |-> cache[k].result, lastAccess |-> now,
                                       accessCount |-> cache[k].accessCount + 1]]
       ]_vars
    /\ [](\A k \in Present(cache) :
             /\ cache[k].accessCount >= 1
             /\ cache[k].accessCount = 1 + hitStats[k].updates)

\* the update of the one hit served from the entry of s1 has run, later than
\* the entry was stored
C33_Witness ==
    LET k == hashCode("s1")
    IN  /\ cache[k] # NoEntry
        /\ hitStats[k] = [hits |-> 1, updates |-> 1]
        /\ pendingStats[k] = 0
        /\ cache[k].accessCount = 2
        /\ cache[k].lastAccess > lastRun[k].at

\* C33 (as stated): once the updates that were started have run, AccessCount is
\* 1 plus the number of hits served from the entry.
C33_HitBookkeeping ==
    \A k \in Present(cache) :
        /\ cache[k].accessCount >= 1
        /\ pendingStats[k] = 0 => cache[k].accessCount = 1 + hitStats[k].hits

\* C36: when Execute has returned after a successful cmd.Start, cmd.Wait has
\* been called and has returned for the child it started.
C36_StartedChildAwaited ==
    (xpc = "returned" /\ child # "none") => waited

\* C37: the fixed-window limiter admits at most maxRequestsPerMin requests of
\* one client within any interval shorter than a minute.
C37_WindowBound ==
    \A ip \in Clients : \A s \in Instants, e \in Instants :
        (s <= e /\ e - s < Minute) => Admitted(ip, s, e) <= rl.maxRequestsPerMin

\* C34: a request that is inside the wrapped executor or is writing cached
\* bytes to its writer holds the mutex neither for reading nor for writing, a
\* request that has returned holds nothing, and the mutex is held for reading
\* only by the requests at the lookup and for writing only by a request at the
\* store, an update or the cleaner: a running child or a slow client keeps
\* nobody from the mutex.
C34_LockingDiscipline ==
    /\ \A w \in Workers :
           lpc[w] \in {"inner", "write", "idle", "rlock", "lock"} =>
               (w \notin readers /\ writer # w)
    /\ readers = {w \in Workers : lpc[w] = "lookup"}
    /\ writer \in Workers => lpc[writer] = "store"
    /\ (\A w \in Workers : lpc[w] \in {"inner", "write"}) =>
           (writer \in {NoHolder, "stats", "cleaner"} /\ readers = {})

\* while one request is inside the wrapped executor and another is writing
\* cached bytes, a pass of the cleaner holds the write lock
C34_Witness ==
    /\ lpc["w1"] = "inner"
    /\ lpc["w2"] = "write"
    /\ writer = "cleaner"

\* while one request is inside the wrapped executor, another has taken the
\* write lock and is storing
C34_WitnessStore ==
    /\ lpc["w1"] = "inner"
    /\ lpc["w2"] = "store"
    /\ writer = "w2"

\* C35: a store for a key that has an entry removes the entry of no other
\* key, and a store removes the entry of another key only when the cache with
\* the new entry added would hold more than maxCacheSize entries.
C35_EvictionOnlyForRoom ==
    [][\A w \in Workers :
          Stores(w) =>
              \A j \in Keys \ {KeyOf(w)} :
                  (cache[j] # NoEntry /\ cache'[j] = NoEntry) =>
                      /\ cache[KeyOf(w)] = NoEntry
                      /\ Cardinality(Present(cache) \cup {KeyOf(w)}) > maxCacheSize
    ]_vars

\* C38: whatever CACHE_TTL_MINUTES holds, the cleaner does not fault: once
\* started it ticks with a positive period, and the process keeps running.
C38_CleanerStarts ==
    server # [none |-> TRUE] =>
        /\ server.cleaner # "panicked"
        /\ server.state = "running"
        /\ server.cleaner = "ticking" => server.period > 0

\* C39: activeTabId is the id of a tab that exists and whose mode is the
\* current mode.
C39_ActiveTabOfMode ==
    \E i \in 1..Len(tabs) : tabs[i].id = activeTabId /\ tabs[i].mode = mode

\* ----------------------------------------------- claims on the handler
\* the request decoded to a source
HasCode == hreq.body # [undecodable |-> TRUE]

\* the request is a POST that the limiter admitted, with a JSON content type
\* and a body that decoded
ReachedValidation ==
    /\ hreq.method = "POST"
    /\ hresp.admitted
    /\ HasPrefix(hreq.ctype, <<"application/json">>)
    /\ HasCode

\* the source imports a package of the denylist
ImportsDenied(code) ==
    \E i \in 1..Len(code.imports), j \in 1..Len(blacklistedImports) :
        code.imports[i] = blacklistedImports[j]

\* C20: the executor is invoked exactly for a POST that was admitted, has a JSON
\* content type, decoded, and carries a non-empty source of at most
\* MaxCodeLength bytes without a denied import; an empty, oversized or
\* denied-import source is answered 200 with its inline error line and nothing
\* else.
C20_ExecutionGate ==
    hresp # [none |-> TRUE] =>
        /\ hresp.invoked <=>
               /\ ReachedValidation
               /\ hreq.body.code.len > 0
               /\ hreq.body.code.len <= MaxCodeLen
               /\ ~ImportsDenied(hreq.body.code)
        /\ (ReachedValidation /\ hreq.body.code.len = 0) =>
               /\ hresp.status = StatusOK
               /\ hresp.body = <<"Error: El código no puede estar vacío">>
        /\ (ReachedValidation /\ hreq.body.code.len > MaxCodeLen) =>
               /\ hresp.status = StatusOK
               /\ hresp.body =
                      <<"Error: El código excede el límite de ", MaxCodeLen, " bytes">>
        /\ (ReachedValidation /\ hreq.body.code.len > 0
                              /\ hreq.body.code.len <= MaxCodeLen
                              /\ ImportsDenied(hreq.body.code)) =>
               /\ hresp.status = StatusOK
               /\ Len(hresp.body) = 2
               /\ hresp.body[1] = "Error: Import prohibido por seguridad: "
               /\ \E i \in 1..Len(hreq.body.code.imports) :
                      hresp.body[2] = hreq.body.code.imports[i]
               /\ hreq.body.code.imports = <<"os/exec">> => hresp.body[2] = "os/exec"

\* a source of exactly MaxCodeLength bytes was run
C20_Witness ==
    /\ hresp # [none |-> TRUE]
    /\ hresp.invoked
    /\ hreq.body.code.len = MaxCodeLen
    /\ hreq.ctype = <<"application/json", "; charset=utf-8">>

\* a source importing os/exec was refused with the inline line, the executor not run
C20_WitnessDenied ==
    /\ hresp # [none |-> TRUE]
    /\ ReachedValidation
    /\ hreq.body.code.imports = <<"os/exec">>
    /\ hreq.body.code.len <= MaxCodeLen
    /\ ~hresp.invoked
    /\ hresp.body = <<"Error: Import prohibido por seguridad: ", "os/exec">>

\* a request has just been served
Served == hreq = [none |-> TRUE] /\ hreq' # [none |-> TRUE]

PassedAdmission ==
    /\ hresp # [none |-> TRUE]
    /\ hreq.method = "POST"
    /\ hresp.admitted

\* C22: an admitted POST whose Content-Type does not begin with application/json
\* is answered 415 and the executor is not run for it.
C22_UnsupportedMediaType ==
    (PassedAdmission /\ ~HasPrefix(hreq.ctype, <<"application/json">>)) =>
        /\ hresp.status = 415
        /\ ~hresp.invoked

\* C23: every response of /api/execute carries the security headers.
C23_SecurityHeaders ==
    hresp # [none |-> TRUE] => hresp.secure

\* C24: when the executor was run, the status is 200; if it returned an error the
\* body is the streamed chunks followed by the one line "\nError: <message>" and
\* the last thing the handler did is flush after that line; if it returned nil
\* the body is the streamed chunks and nothing else.
C24_ErrorRendering ==
    (hresp # [none |-> TRUE] /\ hresp.invoked) =>
        /\ hresp.status = StatusOK
        /\ SubSeq(hresp.body, 1, Len(hresp.run.out)) = hresp.run.out
        /\ IF hresp.run.err # ""
           THEN /\ Len(hresp.body) = Len(hresp.run.out) + 2
                /\ hresp.body[Len(hresp.body) - 1] = "\nError: "
                /\ hresp.body[Len(hresp.body)] = hresp.run.err
                /\ hresp.flushes # <<>>
                /\ hresp.flushes[Len(hresp.flushes)] = Len(hresp.body)
           ELSE hresp.body = hresp.run.out

\* the executor streamed two chunks and then failed
C24_Witness ==
    /\ hresp # [none |-> TRUE]
    /\ hresp.invoked
    /\ hresp.run.err # ""
    /\ Len(hresp.run.out) = 2
    /\ Len(hresp.body) = 4

\* the executor streamed a chunk and returned nil
C24_WitnessNil ==
    /\ hresp # [none |-> TRUE]
    /\ hresp.invoked
    /\ hresp.run.err = ""
    /\ hresp.body = <<"a">>

\* C25: every chunk the executor wrote to the response, but for the last one,
\* was flushed before the next chunk was written.
C25_FlushPerChunk ==
    (hresp # [none |-> TRUE] /\ hresp.invoked) =>
        \A i \in 1..(Len(hresp.run.out) - 1) :
            \E j \in 1..Len(hresp.flushes) : hresp.flushes[j] = i

\* the identity candidates of a request in order of priority: the
\* X-Forwarded-For value, the X-Real-IP value, the remote address
Candidates(req) == <<Get(req.xff), Get(req.xri), req.remote>>

\* the first candidate that is not empty (the remote address never is)
FirstNonEmpty(q) == q[CHOOSE i \in 1..Len(q) :
                        /\ q[i] # ""
                        /\ \A j \in 1..(i - 1) : q[j] = ""]

\* C28: for every combination of absent, empty and set forwarding headers, the
\* admission of a POST is decided on, and charged to, the bucket keyed by the
\* first non-empty of X-Forwarded-For, X-Real-IP and the remote address, and no
\* other bucket changes.
C28_ClientIdentity ==
    [][(Served /\ hreq'.method = "POST") =>
          LET id == FirstNonEmpty(Candidates(hreq'))
          IN  /\ hresp'.consulted
              /\ hresp'.admitted = IsAllowed(rl, id, now).allowed
              /\ rl'.buckets[id] = IsAllowed(rl, id, now).rl.buckets[id]
              /\ rl'.buckets[id] # NoBucket
              /\ rl'.buckets[id].lastRefillTime = now
              /\ \A c \in Clients \ {id} : rl'.buckets[c] = rl.buckets[c]
    ]_vars

\* an empty X-Forwarded-For was skipped: the request counted for the client
\* named by X-Real-IP, not for the remote address
C28_Witness ==
    /\ hresp # [none |-> TRUE]
    /\ hreq.xff = <<"">>
    /\ hreq.xri = <<"ipB">>
    /\ hreq.remote = "ipA"
    /\ hresp.admitted
    /\ rl.buckets["ipB"] # NoBucket
    /\ rl.buckets["ipA"] = NoBucket

\* both headers set: the request counted for the X-Forwarded-For client and was
\* refused for it while the remote address had never been seen
C28_WitnessForwarded ==
    /\ hresp # [none |-> TRUE]
    /\ hreq.xff = <<"ipA">>
    /\ hreq.xri = <<"ipB">>
    /\ hreq.remote = "ipB"
    /\ hresp.status = StatusTooManyRequests
    /\ rl.buckets["ipB"] = NoBucket

\* ------------------------------------------------ claims on the config
\* the variable is set to a string that reads as an integer
Numeric(key) ==
    /\ environ[key].exists
    /\ environ[key].value # <<>>
    /\ Atoi(environ[key].value).ok

\* the integer the variable reads as
Given(key) == Atoi(environ[key].value).n

\* the field is the default when the variable is unset, empty or not a number,
\* and the given value when that is at or above the floor
KeptOrDefault(key, field, floor, default) ==
    IF Numeric(key) THEN (Given(key) >= floor => field = Given(key))
    ELSE field = default

\* the three floors hold
Floors ==
    /\ config.MaxRequestsPerMinute >= 1
    /\ config.MaxCodeLength >= 100
    /\ config.ExecutionTimeout >= TicksPerSecond

\* C27: in every environment the Config satisfies the three floors, keeps a
\* value that is at or above its floor, and takes the default for a variable
\* that is unset, empty or not a number.
C27_ConfigFloors ==
    config # [none |-> TRUE] =>
        /\ Floors
        /\ KeptOrDefault("MAX_REQUESTS_PER_MINUTE", config.MaxRequestsPerMinute,
                         1, DefaultMaxRequestsPerMinute)
        /\ KeptOrDefault("MAX_CODE_LENGTH", config.MaxCodeLength,
                         100, DefaultMaxCodeLength)
        /\ IF Numeric("EXECUTION_TIMEOUT_SECONDS")
           THEN Given("EXECUTION_TIMEOUT_SECONDS") >= 1 =>
                    config.ExecutionTimeout =
                        Given("EXECUTION_TIMEOUT_SECONDS") * TicksPerSecond
           ELSE config.ExecutionTimeout =
                    DefaultExecutionTimeoutSeconds * TicksPerSecond

\* C27, amended: the floors hold in every environment; a variable that is unset,
\* empty or not a number yields the default; MaxRequestsPerMinute and
\* MaxCodeLength keep a value at or above their floor; ExecutionTimeout keeps a
\* value of at least one second as long as that many seconds fit in a
\* time.Duration, and a below-floor value becomes the floor.
C27_FloorsWithinRange ==
    config # [none |-> TRUE] =>
        /\ Floors
        /\ KeptOrDefault("MAX_REQUESTS_PER_MINUTE", config.MaxRequestsPerMinute,
                         1, DefaultMaxRequestsPerMinute)
        /\ KeptOrDefault("MAX_CODE_LENGTH", config.MaxCodeLength,
                         100, DefaultMaxCodeLength)
        /\ IF Numeric("EXECUTION_TIMEOUT_SECONDS")
           THEN LET n == Given("EXECUTION_TIMEOUT_SECONDS")
                IN  /\ (n >= 1 /\ n * TicksPerSecond <= MaxInt) =>
                           config.ExecutionTimeout = n * TicksPerSecond
                    /\ n < 1 => config.ExecutionTimeout = TicksPerSecond
           ELSE config.ExecutionTimeout =
                    DefaultExecutionTimeoutSeconds * TicksPerSecond
        /\ (Numeric("MAX_CODE_LENGTH") /\ Given("MAX_CODE_LENGTH") < 100) =>
               config.MaxCodeLength = 100
        /\ (Numeric("MAX_REQUESTS_PER_MINUTE") /\ Given("MAX_REQUESTS_PER_MINUTE") < 1) =>
               config.MaxRequestsPerMinute = 1

\* a timeout of 250 seconds was kept, a code length of 99 raised to 100, and a
\* rate that is not a number replaced by the default
C27_Witness ==
    /\ config # [none |-> TRUE]
    /\ environ["EXECUTION_TIMEOUT_SECONDS"].value = <<"2", "5", "0">>
    /\ environ["MAX_CODE_LENGTH"].value = <<"9", "9">>
    /\ environ["MAX_REQUESTS_PER_MINUTE"].value = <<"a", "b", "c">>
    /\ config.ExecutionTimeout = 250 * TicksPerSecond
    /\ config.MaxCodeLength = 100
    /\ config.MaxRequestsPerMinute = DefaultMaxRequestsPerMinute

\* ------------------------------------------- claims on the safety filter
\* the paths of the import specs of the source that are on the denylist
DeniedPaths ==
    {source.specs[i].path : i \in 1..Len(source.specs)}
        \cap {blacklistedImports[j] : j \in 1..Len(blacklistedImports)}

\* C26: the filter returns (true, name), name a denylisted path the source
\* imports, whenever an import declaration of the source, in single or in block
\* form, names a denylisted path, and (false, "") when none does.
C26_SafetyFilter ==
    verdict # [none |-> TRUE] =>
        IF DeniedPaths # {}
        THEN verdict.found /\ verdict.pkg \in DeniedPaths
        ELSE verdict = [found |-> FALSE, pkg |-> ""]

\* every spec of the source is unnamed, double-quoted and without a ) in its
\* comment
PlainSpecs ==
    \A i \in 1..Len(source.specs) :
        /\ source.specs[i].alias = ""
        /\ source.specs[i].quote = "\""
        /\ source.specs[i].comment # <<" ", "//", " ", ":", ")">>

\* on such sources the filter answers as C26 says, naming the first denied path
FilterRightOnPlainSpecs ==
    (verdict # [none |-> TRUE] /\ PlainSpecs) =>
        IF DeniedPaths # {}
        THEN /\ verdict.found
             /\ \E i \in 1..Len(source.specs) :
                    /\ verdict.pkg = source.specs[i].path
                    /\ \A j \in 1..(i - 1) : source.specs[j].path \notin DeniedPaths
        ELSE verdict = [found |-> FALSE, pkg |-> ""]

====
